---- MODULE Spec2Model ----
(***************************************************************************)
(* Verification model of the Linson e-ink typewriter firmware.             *)
(*                                                                         *)
(* Texts are sequences of one-character strings.  Time is counted in       *)
(* milliseconds and advances in steps of throttle_ms (500 ms), the common  *)
(* divisor of every threshold the schedulers compare against.              *)
(***************************************************************************)
EXTENDS Integers, Sequences, FiniteSets, TLC

\* ------------------------------------------------------------------------
\* Program constants
\* ------------------------------------------------------------------------
CHAR_WIDTH == 8
CHAR_HEIGHT == 15
MARGIN_LEFT == 5
MARGIN_TOP == 5
EPD_WIDTH == 400
EPD_HEIGHT == 300
throttle_ms == 500
quiet_ms == 500
save_throttle_ms == 2000
screen_saver_ms == 120000
sleep_ms == 600000
PartialBusyMs == 300
FullBusyMs == 2000
QueueMaxsize == 5
DisplayQueueMaxsize == 1

\* ------------------------------------------------------------------------
\* Bounds of the model
\* ------------------------------------------------------------------------
\* key presses the keyboard controller delivers in one run
MaxPresses == 3
\* events the controller FIFO holds in the model (the chip holds 10)
MaxFifo == 3
\* keys held down at the same time
MaxHeld == 2
\* exact idle time is tracked for IdleTicks steps; beyond that only the
\* region (below screensaver / screensaver / sleep) is tracked
IdleTicks == 4
\* the count of physical refreshes since the last input saturates here
BurstCap == 2
\* operations the main thread of the threaded executor runs
MaxOps == 9
\* keys the main thread handles when all its modes are modelled
MaxKeys == 4
\* rows of the file menu in the model (the panel shows 10)
MaxFilesShown == 2
\* characters of a text handed to TextLayout
MaxLayoutText == 4
\* characters of a file content handed to split_into_pages
MaxContent == 8
\* pages of a list handed to merge_pages, and characters of each
MaxListPages == 3
MaxPageText == 2
\* characters typed into one page by the threaded executor
MaxText == 2
\* explicit pages of the file of the threaded executor
MaxPages == 2
\* calls of FileSaveQueue.request_save in one run
MaxRequests == 4
\* calls of put and get the threads make on a queue.Queue
MaxCalls == 4

\* ------------------------------------------------------------------------
\* Strings
\* ------------------------------------------------------------------------
NL == "\n"
Marker == <<NL, "-", "-", "-", NL>>
Whitespace == {" ", NL}

\* str.strip() == "" : every character is whitespace
IsBlank(s) == \A i \in 1..Len(s) : s[i] \in Whitespace

StartsWithAt(s, sep, i) ==
    /\ i + Len(sep) - 1 <= Len(s)
    /\ \A j \in 1..Len(sep) : s[i + j - 1] = sep[j]

\* index of the first occurrence of sep in s at or after position i, 0 if none
RECURSIVE FindFrom(_, _, _)
FindFrom(s, sep, i) ==
    IF i + Len(sep) - 1 > Len(s) THEN 0
    ELSE IF StartsWithAt(s, sep, i) THEN i
    ELSE FindFrom(s, sep, i + 1)

\* str.split(sep): non-overlapping occurrences, left to right
RECURSIVE StrSplit(_, _)
StrSplit(s, sep) ==
    LET k == FindFrom(s, sep, 1) IN
    IF k = 0 THEN <<s>>
    ELSE <<SubSeq(s, 1, k - 1)>> \o StrSplit(SubSeq(s, k + Len(sep), Len(s)), sep)

\* sep.join(parts)
RECURSIVE StrJoin(_, _)
StrJoin(parts, sep) ==
    IF Len(parts) = 0 THEN <<>>
    ELSE IF Len(parts) = 1 THEN parts[1]
    ELSE parts[1] \o sep \o StrJoin(Tail(parts), sep)

\* a split at every rule of three dashes, whatever surrounds it
split_at_dashes(file_content) ==
    IF IsBlank(file_content) THEN << <<>> >>
    ELSE StrSplit(file_content, <<"-", "-", "-">>)

\* PageManager.split_into_pages
split_into_pages(file_content) ==
    IF IsBlank(file_content) THEN << <<>> >>
    ELSE StrSplit(file_content, Marker)

\* a join that puts the marker on a line of its own only when it has to
merge_pages_trimmed(pages) == StrJoin(pages, <<"-", "-", "-", NL>>)

\* PageManager.merge_pages
merge_pages(pages) == StrJoin(pages, Marker)

\* the page list grown to hold index idx, with that page replaced
\* (save_current_page: "while len(pages) <= current_page_index: append")
RECURSIVE GrowPages(_, _)
GrowPages(pages, idx) ==
    IF Len(pages) <= idx THEN GrowPages(Append(pages, <<>>), idx) ELSE pages

PagesWith(pages, idx, text) ==
    [GrowPages(pages, idx) EXCEPT ![idx + 1] = text]

\* ------------------------------------------------------------------------
\* TextLayout
\* ------------------------------------------------------------------------
\* get_word_boundaries: (word_start, word_end), 0-based, end exclusive
RECURSIVE SkipSpaces(_, _)
SkipSpaces(text, p) ==
    IF p < Len(text) /\ text[p + 1] = " " THEN SkipSpaces(text, p + 1) ELSE p

RECURSIVE WordEnd(_, _)
WordEnd(text, p) ==
    IF p < Len(text) /\ text[p + 1] \notin {" ", NL} THEN WordEnd(text, p + 1) ELSE p

get_word_boundaries(text, start_pos) ==
    IF start_pos >= Len(text) THEN <<start_pos, start_pos>>
    ELSE LET ws == SkipSpaces(text, start_pos) IN <<ws, WordEnd(text, ws)>>

\* glyphs (x, ch) of text[from..to) placed from x0 on, CHAR_WIDTH apart
Placed(text, from, to, x0) ==
    [j \in 1..(to - from) |-> <<x0 + (j - 1) * CHAR_WIDTH, text[from + j]>>]

\* a count that lets a character start anywhere left of max_width
RECURSIVE FitCountStarting(_, _, _, _)
FitCountStarting(i, word_end, x, max_width) ==
    IF i < word_end /\ x < max_width
    THEN 1 + FitCountStarting(i + 1, word_end, x + CHAR_WIDTH, max_width)
    ELSE 0

\* a count that places a character only while the rest of the word fits
RECURSIVE FitCountWord(_, _, _, _)
FitCountWord(i, word_end, x, max_width) ==
    IF i < word_end /\ x + (word_end - i) * CHAR_WIDTH <= max_width
    THEN 1 + FitCountWord(i + 1, word_end, x + CHAR_WIDTH, max_width)
    ELSE 0

\* number of characters of text[i..word_end) that fit from x on
\* ("while i < word_end and current_x + CHAR_WIDTH <= max_width")
RECURSIVE FitCount(_, _, _, _)
FitCount(i, word_end, x, max_width) ==
    IF i < word_end /\ x + CHAR_WIDTH <= max_width
    THEN 1 + FitCount(i + 1, word_end, x + CHAR_WIDTH, max_width)
    ELSE 0

\* the loop of calculate_lines from index i (0-based) with the current line,
\* the current x and the lines finished so far
RECURSIVE CalcLoop(_, _, _, _, _, _)
CalcLoop(text, max_width, i, line, x, lines) ==
    IF i >= Len(text) THEN
        IF Len(line) > 0 THEN Append(lines, line) ELSE lines
    ELSE IF text[i + 1] = NL THEN
        CalcLoop(text, max_width, i + 1, <<>>, MARGIN_LEFT, Append(lines, line))
    ELSE IF text[i + 1] = " " THEN
        IF x + CHAR_WIDTH <= max_width
        THEN CalcLoop(text, max_width, i + 1, Append(line, <<x, " ">>),
                      x + CHAR_WIDTH, lines)
        ELSE CalcLoop(text, max_width, i + 1, line, x, lines)
    ELSE
        LET wb == get_word_boundaries(text, i)
            word_end == wb[2]
            word_width == (wb[2] - wb[1]) * CHAR_WIDTH
        IN
        IF x + word_width <= max_width THEN
            CalcLoop(text, max_width, word_end,
                     line \o Placed(text, wb[1], word_end, x),
                     x + word_width, lines)
        ELSE IF x = MARGIN_LEFT \/ word_width > max_width - MARGIN_LEFT THEN
            LET n == FitCount(i, word_end, x, max_width)
                line2 == line \o Placed(text, i, i + n, x)
            IN
            IF i + n < word_end
            THEN CalcLoop(text, max_width, i + n, <<>>, MARGIN_LEFT,
                          Append(lines, line2))
            ELSE CalcLoop(text, max_width, i + n, line2,
                          x + n * CHAR_WIDTH, lines)
        ELSE
            CalcLoop(text, max_width, i, <<>>, MARGIN_LEFT, Append(lines, line))

\* a layout that takes max_width as the place where the last character starts
calculate_lines_to_start(text, max_width) ==
    CalcLoop(text, max_width + CHAR_WIDTH, 0, <<>>, MARGIN_LEFT, <<>>)

calculate_lines(text, max_width) ==
    CalcLoop(text, max_width, 0, <<>>, MARGIN_LEFT, <<>>)

\* the loop of get_screen_pages over the lines from index k on
RECURSIVE PageLoop(_, _, _, _, _, _)
PageLoop(lines, max_height, k, page, y, pages) ==
    IF k > Len(lines) THEN
        IF Len(page) > 0 THEN Append(pages, page) ELSE pages
    ELSE
        LET brk == y + CHAR_HEIGHT > max_height
            y1 == IF brk THEN MARGIN_TOP ELSE y
            page1 == IF brk THEN <<>> ELSE page
            pages1 == IF brk THEN Append(pages, page) ELSE pages
            with_y == [j \in 1..Len(lines[k]) |->
                          <<lines[k][j][1], y1, lines[k][j][2]>>]
        IN PageLoop(lines, max_height, k + 1, page1 \o with_y,
                    y1 + CHAR_HEIGHT, pages1)

get_screen_pages(text, max_width, max_height) ==
    LET pages == PageLoop(calculate_lines(text, max_width), max_height, 1,
                          <<>>, MARGIN_TOP, <<>>)
    IN IF Len(pages) > 0 THEN pages ELSE << <<>> >>

get_cursor_screen_pos(text, cursor, max_width, max_height) ==
    LET c == IF cursor > Len(text) THEN Len(text) ELSE cursor
        lines == calculate_lines(SubSeq(text, 1, c), max_width)
        total_lines == Len(lines)
        lines_per_page == (max_height - MARGIN_TOP) \div CHAR_HEIGHT
        last_line == lines[total_lines]
    IN
    IF total_lines = 0 THEN <<MARGIN_LEFT, MARGIN_TOP, 0>>
    ELSE << IF Len(last_line) > 0
            THEN last_line[Len(last_line)][1] + CHAR_WIDTH
            ELSE MARGIN_LEFT,
            MARGIN_TOP + ((total_lines - 1) % lines_per_page) * CHAR_HEIGHT,
            (total_lines - 1) \div lines_per_page >>


\* ------------------------------------------------------------------------
\* State
\* ------------------------------------------------------------------------
VARIABLES
    \* Document and files (module globals of main_async.py / main_threaded_v4.py)
    text_buffer, cursor_index, current_page_index, ACTIVE_FILE, files,
    file_dirty, display_dirty,
    \* mode machine
    app_mode, menu_selected_index, menu_files, app_should_exit,
    \* cooperative render scheduler flags
    display_refresh_requested, display_refresh_type,
    \* keyboard controller (TCA8418): event FIFO, keys physically held,
    \* number of press events delivered so far
    fifo, held, presses,
    \* keyboard_scanner_task: current_pressed and the task's locals
    current_pressed, kb,
    \* display_manager_task, file saver / save_current_page_async callers,
    \* idle_monitor_task
    dm, sv, im,
    \* display: framebuffer, controller RAM, image on the panel, busy pin,
    \* time the panel has been busy, kind of the running update,
    \* tasks with a bus command sequence in progress
    fb, ram, panel, busy, busy_ms, busy_kind,
    \* elapsed times (ms, capped): since the last key was handled, since the
    \* display manager's last_refresh_time, since the saver's last_save_time,
    \* since the last physical refresh of any origin completed
    since_key, since_refresh, since_save, since_phys,
    \* history: presses dispatched to a mode handler; refreshes the display
    \* manager has begun since the last input was handled
    dispatched, burst_refreshes,
    \* threaded executor: the two request queues, the worker thread, the main
    \* thread's history (operations run, the last one, whether its last put
    \* was accepted), and the page texts of the accepted saves
    display_queue, file_queue, wk, mt, expected,
    \* DisplayQueue (display_async.py): its queue, its process_refreshes task
    \* with the time since last_refresh_time; history: a Full refresh has been
    \* requested through the flag / through the queue and none has started
    \* since
    queue, pr, owed,
    \* main_threaded.py: the Queue class that "from queue import Queue" or
    \* its except branch bound, the _not_full lock of each queue of the
    \* imported class, the main thread's position (running, or inside put)
    queue_class, not_full, caller,
    \* paged view (main_threaded_v4.py main): the page and subpage on view;
    \* file_menu of main_improved.py: its local files and idx, and how its
    \* loop stands
    view_page_index, view_subpage_index, fm,
    \* main_improved.py: the screen page of the explicit page being edited;
    \* history of its editing operations (the last two and the Document
    \* before each); the call of a pure function of editor_base.py under
    \* examination (its arguments and its result)
    current_subpage_index, ed, fn,
    \* FileSaveQueue (file_async.py): pending_saves, dirty, the position of
    \* process_saves, the storage it writes, and the latest content that
    \* request_save was given for each path
    fsq,
    \* the while loop of TextLayout.calculate_lines, one iteration at a time:
    \* its arguments and locals, and whether the last iteration left the
    \* scan index where it was
    cl,
    \* queue.Queue (queue.py): maxsize, _queue and the three locks; the
    \* threads inside put and get; the items in the order they were
    \* appended and in the order they were popped
    qu

vars == << text_buffer, cursor_index, current_page_index, ACTIVE_FILE, files,
           file_dirty, display_dirty, app_mode, menu_selected_index,
           menu_files, app_should_exit, display_refresh_requested,
           display_refresh_type, fifo, held, presses, current_pressed, kb,
           dm, sv, im, fb, ram, panel, busy, busy_ms, busy_kind,
           since_key, since_refresh, since_save, since_phys,
           dispatched, burst_refreshes, display_queue, file_queue, wk, mt,
           expected, queue, pr, owed, queue_class, not_full, caller,
           view_page_index, view_subpage_index, fm,
           current_subpage_index, ed, fn, fsq, cl, qu >>

apiVars == << queue, pr, owed >>
importVars == << queue_class, not_full, caller >>
workerVars == << display_queue, file_queue, wk, mt, expected >>
viewVars == << view_page_index, view_subpage_index, fm >>
libVars == << fsq, cl, qu >>
edVars == << current_subpage_index, ed, fn, libVars >>
threadVars == << workerVars, apiVars, importVars, viewVars, edVars >>
docVars == << text_buffer, cursor_index, current_page_index >>
modeVars == << app_mode, menu_selected_index, menu_files, app_should_exit >>
reqVars == << display_refresh_requested, display_refresh_type >>
hwKeyVars == << fifo, held, presses >>
panelVars == << ram, panel, busy, busy_ms, busy_kind >>
timeVars == << since_key, since_refresh, since_save, since_phys >>

\* calculate_lines has not been called
ClNone == [pc |-> "none"]

\* no Queue of queue.py has been made
QuNone == [maxsize |-> -1]

\* paths handed to FileSaveQueue.request_save in the model
FsqPaths == {"p", "q"}

\* FileSaveQueue.__init__; nothing on storage, nothing requested
FsqIdle ==
    [pending |-> <<>>, dirty |-> FALSE, pc |-> "poll", k |-> 0,
     item |-> <<>>, resized |-> FALSE, failed |-> FALSE, requests |-> 0,
     disk |-> [path \in FsqPaths |-> 0],
     latest |-> [path \in FsqPaths |-> 0]]

\* keys the keyboard delivers in the model, by label (keyboard.key_map)
KeySet == {"a", "Enter", "Esc"}
FileNames == <<"f1">>
SaveCallers == {"saver", "idle"}

\* ------------------------------------------------------------------------
\* Images in the framebuffer
\* ------------------------------------------------------------------------
BlankImage == [kind |-> "blank", glyphs |-> <<>>, cur |-> <<0, 0>>]
SaverImage == [kind |-> "saver", glyphs |-> <<>>, cur |-> <<0, 0>>]
\* MenuRenderer.render_file_menu: the list and the selection arrow
MenuImage(nfiles, sel) == [kind |-> "menu", glyphs |-> <<>>, cur |-> <<nfiles, sel>>]

\* render_text_page + render_cursor of refresh_display: first screen page of
\* the text, cursor bar at get_cursor_screen_pos
RenderDoc(text, cursor) ==
    LET pos == get_cursor_screen_pos(text, cursor, EPD_WIDTH, EPD_HEIGHT) IN
    [kind |-> "doc",
     glyphs |-> get_screen_pages(text, EPD_WIDTH, EPD_HEIGHT)[1],
     cur |-> <<pos[1], pos[2]>>]

\* ------------------------------------------------------------------------
\* Time
\* ------------------------------------------------------------------------
TickMs == throttle_ms
IdleCapMs == IdleTicks * TickMs

Capped(t, cap) == IF t + TickMs >= cap THEN cap ELSE t + TickMs

BusyLimit == IF busy_kind = "full" THEN FullBusyMs ELSE PartialBusyMs
\* the running panel update ends before the next tick
PanelDue == busy /\ busy_ms + TickMs > BusyLimit


\* ------------------------------------------------------------------------
\* Keyboard controller (environment) and keyboard_scanner_task
\* ------------------------------------------------------------------------
KbIdle == [pc |-> "sleep", pressed |-> {}, prev_keys |-> {}, todo |-> {}]

\* The scanner sleeps 10 ms between scans and its zero-delay yields are
\* shorter still, so the FIFO holds at most one event when it is drained;
\* events pile up only while the task waits for the panel (2 s) inside
\* show_menu_async.  No event arrives inside the synchronous dispatch loop.
FifoRoom ==
    IF kb.pc = "menu_wait" THEN Len(fifo) < MaxFifo
    ELSE kb.pc # "dispatch" /\ fifo = <<>>

KeyPress(k) ==
    /\ k \notin held
    /\ Cardinality(held) < MaxHeld
    /\ presses < MaxPresses
    /\ FifoRoom
    /\ fifo' = Append(fifo, <<k, TRUE>>)
    /\ held' = held \cup {k}
    /\ presses' = presses + 1
    /\ UNCHANGED threadVars
    /\ UNCHANGED << docVars, ACTIVE_FILE, files, file_dirty, display_dirty,
                    modeVars, reqVars, current_pressed, kb, dm, sv, im, fb,
                    panelVars, timeVars, dispatched, burst_refreshes >>

KeyRelease(k) ==
    /\ k \in held
    /\ FifoRoom
    /\ fifo' = Append(fifo, <<k, FALSE>>)
    /\ held' = held \ {k}
    /\ UNCHANGED threadVars
    /\ UNCHANGED << presses, docVars, ACTIVE_FILE, files, file_dirty,
                    display_dirty, modeVars, reqVars, current_pressed, kb, dm,
                    sv, im, fb, panelVars, timeVars, dispatched,
                    burst_refreshes >>

\* scan_keys: drain the FIFO into current_pressed
RECURSIVE ApplyEvents(_, _)
ApplyEvents(events, pressedSet) ==
    IF events = <<>> THEN pressedSet
    ELSE ApplyEvents(Tail(events),
                     IF Head(events)[2] THEN pressedSet \cup {Head(events)[1]}
                     ELSE pressedSet \ {Head(events)[1]})

\* insert_char
insert_char(ch) ==
    /\ text_buffer' = SubSeq(text_buffer, 1, cursor_index) \o <<ch>>
                      \o SubSeq(text_buffer, cursor_index + 1, Len(text_buffer))
    /\ cursor_index' = cursor_index + 1
    /\ display_dirty' = TRUE
    /\ file_dirty' = TRUE

\* request_display_refresh
request_display_refresh(refresh_type) ==
    /\ display_refresh_requested' = TRUE
    /\ display_refresh_type' = refresh_type
    /\ display_dirty' = FALSE

\* the end of one pass of the scanner loop: prev_keys = pressed, sleep 10 ms
KbEndPass == [KbIdle EXCEPT !.prev_keys = kb.pressed]

\* keyboard_scanner_task: pressed = scan_keys(); new_keys = pressed - prev_keys
KbScan ==
    /\ kb.pc = "sleep"
    /\ ~app_should_exit
    /\ LET cp == ApplyEvents(fifo, current_pressed)
           new_keys == cp \ kb.prev_keys
       IN /\ current_pressed' = cp
          /\ fifo' = <<>>
          /\ kb' = IF new_keys = {}
                   THEN [KbIdle EXCEPT !.prev_keys = cp]
                   ELSE [pc |-> "dispatch", pressed |-> cp,
                         prev_keys |-> kb.prev_keys, todo |-> new_keys]
    /\ UNCHANGED threadVars
    /\ UNCHANGED << held, presses, docVars, ACTIVE_FILE, files, file_dirty,
                    display_dirty, modeVars, reqVars, dm, sv, im, fb,
                    panelVars, timeVars, dispatched, burst_refreshes >>

\* one iteration of "for k in new_keys" in menu mode
\* (handle_menu_input_async, then last_key_time = now and break)
KbDispatchMenu(k) ==
    /\ app_mode = "menu"
    /\ dispatched' = dispatched + 1
    /\ IF k = "Enter" /\ menu_files # <<>> THEN
          \* ACTIVE_FILE = selected; await load_previous_async()
          /\ ACTIVE_FILE' = menu_files[menu_selected_index + 1]
          /\ kb' = [kb EXCEPT !.pc = "load", !.todo = {}]
          /\ UNCHANGED << app_should_exit, since_key, burst_refreshes >>
       ELSE
          /\ app_should_exit' = (k = "Esc")
          /\ since_key' = 0
          /\ burst_refreshes' = 0
          /\ kb' = KbEndPass
          /\ UNCHANGED ACTIVE_FILE
    /\ UNCHANGED threadVars
    /\ UNCHANGED << hwKeyVars, current_pressed, docVars, files, file_dirty,
                    display_dirty, app_mode, menu_selected_index, menu_files,
                    reqVars, dm, sv, im, fb, panelVars, since_refresh,
                    since_save, since_phys >>

\* one iteration of "for k in new_keys" in editor mode
KbDispatchEditor(k) ==
    /\ app_mode = "editor"
    /\ dispatched' = dispatched + 1
    /\ IF k = "Esc" THEN
          \* app_mode = 'menu'; await show_menu_async(); break
          /\ app_mode' = "menu"
          /\ menu_files' = FileNames
          /\ menu_selected_index' =
                IF menu_selected_index >= Len(FileNames)
                THEN Len(FileNames) - 1 ELSE menu_selected_index
          /\ fb' = MenuImage(Len(FileNames), menu_selected_index')
          /\ kb' = [kb EXCEPT !.pc = "menu_ram", !.todo = {}]
          /\ UNCHANGED << docVars, display_dirty, file_dirty, since_key,
                          burst_refreshes >>
       ELSE
          /\ insert_char(IF k = "Enter" THEN NL ELSE k)
          /\ since_key' = 0
          /\ burst_refreshes' = 0
          /\ kb' = IF kb.todo = {k} THEN KbEndPass
                   ELSE [kb EXCEPT !.todo = kb.todo \ {k}]
          /\ UNCHANGED << current_page_index, app_mode, menu_files,
                          menu_selected_index, fb >>
    /\ UNCHANGED threadVars
    /\ UNCHANGED << hwKeyVars, current_pressed, ACTIVE_FILE, files,
                    app_should_exit, reqVars, dm, sv, im, panelVars,
                    since_refresh, since_save, since_phys >>

KbDispatch ==
    /\ kb.pc = "dispatch"
    /\ \E k \in kb.todo : KbDispatchMenu(k) \/ KbDispatchEditor(k)


\* ------------------------------------------------------------------------
\* Panel: the steps of refresh_partial_async / refresh_full_async
\* ------------------------------------------------------------------------
\* 0x24 (and 0x26) followed by the buffer: the framebuffer goes to panel RAM
SendBuffer == ram' = fb

\* 0x22, mode, 0x20: the panel starts to update from its RAM
Activate(kind) ==
    /\ busy' = TRUE
    /\ busy_ms' = 0
    /\ busy_kind' = kind
    /\ panel' = ram
    /\ since_phys' = 0
    /\ UNCHANGED ram

\* the busy pin falls
PanelDone ==
    /\ PanelDue
    /\ busy' = FALSE
    /\ busy_ms' = 0
    /\ UNCHANGED threadVars
    /\ UNCHANGED << ram, panel, busy_kind, hwKeyVars, current_pressed, kb,
                    docVars, ACTIVE_FILE, files, file_dirty, display_dirty,
                    modeVars, reqVars, dm, sv, im, fb, timeVars, dispatched,
                    burst_refreshes >>

\* ------------------------------------------------------------------------
\* keyboard_scanner_task inside its awaits
\* ------------------------------------------------------------------------
\* show_menu_async -> refresh_full_async: buffer to RAM
KbMenuSend ==
    /\ kb.pc = "menu_ram"
    /\ SendBuffer
    /\ kb' = [kb EXCEPT !.pc = "menu_trig"]
    /\ UNCHANGED threadVars
    /\ UNCHANGED << panel, busy, busy_ms, busy_kind, hwKeyVars,
                    current_pressed, docVars, ACTIVE_FILE, files, file_dirty,
                    display_dirty, modeVars, reqVars, dm, sv, im, fb,
                    timeVars, dispatched, burst_refreshes >>

KbMenuActivate ==
    /\ kb.pc = "menu_trig"
    /\ Activate("full")
    /\ kb' = [kb EXCEPT !.pc = "menu_wait"]
    /\ UNCHANGED threadVars
    /\ UNCHANGED << hwKeyVars, current_pressed, docVars, ACTIVE_FILE, files,
                    file_dirty, display_dirty, modeVars, reqVars, dm, sv, im,
                    fb, since_key, since_refresh, since_save,
                    dispatched, burst_refreshes >>

\* wait_for_busy_async returns; "break"; prev_keys = pressed
KbMenuDone ==
    /\ kb.pc = "menu_wait"
    /\ ~busy
    /\ kb' = KbEndPass
    /\ UNCHANGED threadVars
    /\ UNCHANGED << hwKeyVars, current_pressed, docVars, ACTIVE_FILE, files,
                    file_dirty, display_dirty, modeVars, reqVars, dm, sv, im,
                    fb, panelVars, timeVars, dispatched, burst_refreshes >>

\* load_previous_async after load_file_async has yielded: the last page of
\* the file replaces the buffer
KbLoad ==
    /\ kb.pc = "load"
    /\ LET pages == split_into_pages(files[ACTIVE_FILE]) IN
       /\ current_page_index' = Len(pages) - 1
       /\ text_buffer' = pages[Len(pages)]
       /\ cursor_index' = Len(pages[Len(pages)])
    /\ kb' = [kb EXCEPT !.pc = "loaded"]
    /\ UNCHANGED threadVars
    /\ UNCHANGED << hwKeyVars, current_pressed, ACTIVE_FILE, files,
                    file_dirty, display_dirty, modeVars, reqVars, dm, sv, im,
                    fb, panelVars, timeVars, dispatched, burst_refreshes >>

\* handle_menu_input_async after load_previous_async: app_mode = 'editor',
\* request_display_refresh('full'); then last_key_time = now and break
KbLoaded ==
    /\ kb.pc = "loaded"
    /\ app_mode' = "editor"
    /\ request_display_refresh("full")
    /\ since_key' = 0
    /\ burst_refreshes' = 0
    /\ kb' = KbEndPass
    /\ UNCHANGED threadVars
    /\ UNCHANGED << hwKeyVars, current_pressed, docVars, ACTIVE_FILE, files,
                    file_dirty, menu_selected_index, menu_files,
                    app_should_exit, dm, sv, im, fb, panelVars, since_refresh,
                    since_save, since_phys, dispatched >>

\* ------------------------------------------------------------------------
\* display_manager_task
\* ------------------------------------------------------------------------
DmIdle == [pc |-> "sleep", kind |-> "partial", from |-> "dirty", text |-> <<>>]

\* the conditions under which a pass of the loop starts a refresh
DmReady ==
    /\ app_mode = "editor"
    /\ since_refresh >= throttle_ms
    /\ \/ display_refresh_requested
       \/ display_dirty /\ since_key >= quiet_ms

\* a pass of the loop that starts a refresh, up to its first await (the other
\* passes change nothing)
DmPoll ==
    /\ dm.pc = "sleep"
    /\ ~app_should_exit
    /\ DmReady
    /\ burst_refreshes' = IF burst_refreshes < BurstCap
                          THEN burst_refreshes + 1 ELSE BurstCap
    /\ IF display_refresh_requested THEN
          IF display_refresh_type = "full"
          THEN \* refresh_full_async(epd): the framebuffer as it is
               /\ dm' = [DmIdle EXCEPT !.pc = "ram", !.kind = "full",
                                       !.from = "req"]
               /\ UNCHANGED fb
          ELSE \* refresh_display_async: snapshot the text, clear
               /\ dm' = [pc |-> "draw", kind |-> "partial",
                         from |-> "req", text |-> text_buffer]
               /\ fb' = BlankImage
       ELSE
          /\ dm' = [pc |-> "draw", kind |-> "partial", from |-> "dirty",
                    text |-> text_buffer]
          /\ fb' = BlankImage
    /\ UNCHANGED threadVars
    /\ UNCHANGED << hwKeyVars, current_pressed, kb, docVars, ACTIVE_FILE,
                    files, file_dirty, display_dirty, modeVars, reqVars, sv,
                    im, panelVars, since_key, since_refresh, since_save,
                    since_phys, dispatched >>

\* render_text_page_async and render_cursor_async: the glyphs of the
\* snapshot, the cursor from the snapshot and the current cursor_index
DmDraw ==
    /\ dm.pc = "draw"
    /\ fb' = RenderDoc(dm.text, cursor_index)
    /\ dm' = [dm EXCEPT !.pc = "ram"]
    /\ UNCHANGED threadVars
    /\ UNCHANGED << hwKeyVars, current_pressed, kb, docVars, ACTIVE_FILE,
                    files, file_dirty, display_dirty, modeVars, reqVars, sv,
                    im, panelVars, timeVars, dispatched, burst_refreshes >>

DmSend ==
    /\ dm.pc = "ram"
    /\ SendBuffer
    /\ dm' = [dm EXCEPT !.pc = "trig"]
    /\ UNCHANGED threadVars
    /\ UNCHANGED << panel, busy, busy_ms, busy_kind, hwKeyVars,
                    current_pressed, kb, docVars, ACTIVE_FILE, files,
                    file_dirty, display_dirty, modeVars, reqVars, sv, im, fb,
                    timeVars, dispatched, burst_refreshes >>

DmActivate ==
    /\ dm.pc = "trig"
    /\ Activate(dm.kind)
    /\ dm' = [dm EXCEPT !.pc = "wait"]
    /\ UNCHANGED threadVars
    /\ UNCHANGED << hwKeyVars, current_pressed, kb, docVars, ACTIVE_FILE,
                    files, file_dirty, display_dirty, modeVars, reqVars, sv,
                    im, fb, since_key, since_refresh, since_save,
                    dispatched, burst_refreshes >>

\* the refresh returned: last_refresh_time = now; a served request is cleared
DmDone ==
    /\ dm.pc = "wait"
    /\ ~busy
    /\ since_refresh' = 0
    /\ display_refresh_requested' =
          IF dm.from = "req" THEN FALSE ELSE display_refresh_requested
    /\ dm' = DmIdle
    /\ UNCHANGED threadVars
    /\ UNCHANGED << display_refresh_type, hwKeyVars, current_pressed, kb,
                    docVars, ACTIVE_FILE, files, file_dirty, display_dirty,
                    modeVars, sv, im, fb, panelVars, since_key, since_save,
                    since_phys, dispatched, burst_refreshes >>


\* ------------------------------------------------------------------------
\* save_current_page_async, run by file_saver_task or idle_monitor_task
\* ------------------------------------------------------------------------
SvIdle == [pc |-> "idle", text |-> <<>>, path |-> "", content |-> <<>>]

\* current_text = ''.join(text_buffer); load_file_async(ACTIVE_FILE) yields
SaveBegin(t) ==
    sv' = [sv EXCEPT ![t] = [pc |-> "load", text |-> text_buffer,
                             path |-> ACTIVE_FILE, content |-> <<>>]]

\* the file is read; the page list is rebuilt around the snapshot;
\* save_file_async(ACTIVE_FILE, new_content) yields before writing
SaveLoad(t) ==
    /\ sv[t].pc = "load"
    /\ sv' = [sv EXCEPT ![t].pc = "write",
                        ![t].path = ACTIVE_FILE,
                        ![t].content =
                            merge_pages(PagesWith(split_into_pages(files[sv[t].path]),
                                                  current_page_index, sv[t].text))]
    /\ UNCHANGED threadVars
    /\ UNCHANGED << hwKeyVars, current_pressed, kb, docVars, ACTIVE_FILE,
                    files, file_dirty, display_dirty, modeVars, reqVars, dm,
                    im, fb, panelVars, timeVars, dispatched, burst_refreshes >>

SaveWrite(t) ==
    /\ sv[t].pc = "write"
    /\ files' = [files EXCEPT ![sv[t].path] = sv[t].content]
    /\ sv' = [sv EXCEPT ![t].pc = "finish"]
    /\ UNCHANGED threadVars
    /\ UNCHANGED << hwKeyVars, current_pressed, kb, docVars, ACTIVE_FILE,
                    file_dirty, display_dirty, modeVars, reqVars, dm, im, fb,
                    panelVars, timeVars, dispatched, burst_refreshes >>

\* success: file_dirty = False; back in the caller
SaveFinish(t) ==
    /\ sv[t].pc = "finish"
    /\ file_dirty' = FALSE
    /\ sv' = [sv EXCEPT ![t] = SvIdle]
    /\ IF t = "saver"
       THEN /\ since_save' = 0          \* last_save_time = now
            /\ UNCHANGED im
       ELSE /\ im' = [im EXCEPT !.pc = "slept"]
            /\ UNCHANGED since_save
    /\ UNCHANGED threadVars
    /\ UNCHANGED << hwKeyVars, current_pressed, kb, docVars, ACTIVE_FILE,
                    files, display_dirty, modeVars, reqVars, dm, fb,
                    panelVars, since_key, since_refresh, since_phys,
                    dispatched, burst_refreshes >>

\* the conditions under which a pass of file_saver_task's loop saves
SaverReady ==
    file_dirty /\ since_save >= save_throttle_ms /\ since_key >= quiet_ms

\* file_saver_task: a pass of the loop that saves, up to its first await
SaverPoll ==
    /\ sv["saver"].pc = "idle"
    /\ ~app_should_exit
    /\ SaverReady
    /\ SaveBegin("saver")
    /\ UNCHANGED threadVars
    /\ UNCHANGED << hwKeyVars, current_pressed, kb, docVars, ACTIVE_FILE,
                    files, file_dirty, display_dirty, modeVars, reqVars, dm,
                    im, fb, panelVars, since_key, since_refresh, since_save,
                    since_phys, dispatched, burst_refreshes >>

\* ------------------------------------------------------------------------
\* idle_monitor_task
\* ------------------------------------------------------------------------
\* a pass of the loop that takes one of its three branches, up to its
\* first await
ImPoll ==
    /\ im.pc = "sleep"
    /\ ~app_should_exit
    /\ IF since_key >= screen_saver_ms /\ ~im.active THEN
          \* draw "Linson"; await refresh_full_async(epd)
          /\ fb' = SaverImage
          /\ im' = [im EXCEPT !.pc = "ss_ram"]
          /\ UNCHANGED << sv, reqVars, display_dirty >>
       ELSE IF since_key >= sleep_ms THEN
          /\ IF file_dirty
             THEN SaveBegin("idle") /\ im' = [im EXCEPT !.pc = "save"]
             ELSE im' = [im EXCEPT !.pc = "slept"] /\ UNCHANGED sv
          /\ UNCHANGED << fb, reqVars, display_dirty >>
       ELSE
          /\ since_key < screen_saver_ms /\ im.active
          /\ im' = [im EXCEPT !.active = FALSE]
          /\ request_display_refresh("full")
          /\ UNCHANGED << fb, sv >>
    /\ UNCHANGED threadVars
    /\ UNCHANGED << hwKeyVars, current_pressed, kb, docVars, ACTIVE_FILE,
                    files, file_dirty, modeVars, dm, panelVars, timeVars,
                    dispatched, burst_refreshes >>

ImSend ==
    /\ im.pc = "ss_ram"
    /\ SendBuffer
    /\ im' = [im EXCEPT !.pc = "ss_trig"]
    /\ UNCHANGED threadVars
    /\ UNCHANGED << panel, busy, busy_ms, busy_kind, hwKeyVars,
                    current_pressed, kb, docVars, ACTIVE_FILE, files,
                    file_dirty, display_dirty, modeVars, reqVars, dm, sv, fb,
                    timeVars, dispatched, burst_refreshes >>

ImActivate ==
    /\ im.pc = "ss_trig"
    /\ Activate("full")
    /\ im' = [im EXCEPT !.pc = "ss_wait"]
    /\ UNCHANGED threadVars
    /\ UNCHANGED << hwKeyVars, current_pressed, kb, docVars, ACTIVE_FILE,
                    files, file_dirty, display_dirty, modeVars, reqVars, dm,
                    sv, fb, since_key, since_refresh, since_save,
                    dispatched, burst_refreshes >>

\* the screensaver refresh returned: screen_saver_active = True
ImDone ==
    /\ im.pc = "ss_wait"
    /\ ~busy
    /\ im' = [pc |-> "sleep", active |-> TRUE]
    /\ UNCHANGED threadVars
    /\ UNCHANGED << hwKeyVars, current_pressed, kb, docVars, ACTIVE_FILE,
                    files, file_dirty, display_dirty, modeVars, reqVars, dm,
                    sv, fb, panelVars, timeVars, dispatched, burst_refreshes >>

\* the sleep branch is over (the 10 s stand-in for deep sleep has run)
ImResume ==
    /\ im.pc = "slept"
    /\ im' = [im EXCEPT !.pc = "sleep"]
    /\ UNCHANGED threadVars
    /\ UNCHANGED << hwKeyVars, current_pressed, kb, docVars, ACTIVE_FILE,
                    files, file_dirty, display_dirty, modeVars, reqVars, dm,
                    sv, fb, panelVars, timeVars, dispatched, burst_refreshes >>


\* ------------------------------------------------------------------------
\* Passage of time
\* ------------------------------------------------------------------------
\* every task is inside a timed wait it cannot leave before the next tick:
\* the zero-delay yields have run, the scanner (10 ms) has drained the FIFO,
\* the display manager (100 ms) and the saver (500 ms) have polled and found
\* nothing to do, no one waits on an idle panel
Settled ==
    /\ ~app_should_exit
    /\ ~PanelDue
    /\ \/ kb.pc = "sleep" /\ fifo = <<>>
       \/ kb.pc = "menu_wait" /\ busy
    /\ \/ dm.pc = "sleep" /\ ~DmReady
       \/ dm.pc = "wait" /\ busy
    /\ \A t \in SaveCallers : sv[t].pc = "idle"
    /\ ~SaverReady
    /\ \/ im.pc \in {"sleep", "slept"}
       \/ im.pc = "ss_wait" /\ busy

\* throttle_ms elapse
Tick ==
    /\ Settled
    /\ since_key' = IF since_key < IdleCapMs THEN since_key + TickMs ELSE since_key
    /\ since_refresh' = Capped(since_refresh, throttle_ms)
    /\ since_save' = Capped(since_save, save_throttle_ms)
    /\ since_phys' = Capped(since_phys, throttle_ms)
    /\ busy_ms' = IF busy THEN busy_ms + TickMs ELSE 0
    /\ UNCHANGED threadVars
    /\ UNCHANGED << ram, panel, busy, busy_kind, hwKeyVars, current_pressed,
                    kb, docVars, ACTIVE_FILE, files, file_dirty,
                    display_dirty, modeVars, reqVars, dm, sv, im, fb,
                    dispatched, burst_refreshes >>

\* a long idle stretch elapses: the idle time reaches the next threshold of
\* idle_monitor_task with nothing else left to happen on the way
IdleLeap ==
    /\ Settled
    /\ ~busy
    /\ ~(file_dirty /\ since_save < save_throttle_ms)
    /\ ~(display_refresh_requested /\ app_mode = "editor")
    /\ since_key \in {IdleCapMs, screen_saver_ms}
    /\ since_key' = IF since_key = IdleCapMs THEN screen_saver_ms ELSE sleep_ms
    /\ since_refresh' = throttle_ms
    /\ since_save' = save_throttle_ms
    /\ since_phys' = throttle_ms
    /\ UNCHANGED threadVars
    /\ UNCHANGED << panelVars, hwKeyVars, current_pressed, kb, docVars,
                    ACTIVE_FILE, files, file_dirty, display_dirty, modeVars,
                    reqVars, dm, sv, im, fb, dispatched, burst_refreshes >>

\* the worker thread between two requests; the main thread before its first
\* operation
WkIdle == [pc |-> "display", kind |-> "", path |-> "", content |-> <<>>]
MtStart == [ops |-> 0, last_op |-> "none", put_ok |-> TRUE]
\* process_refreshes waiting on an empty queue, last_refresh_time = 0
PrIdle == [pc |-> "get", kind |-> "partial", since |-> throttle_ms]
NothingOwed == [flag |-> FALSE, queue |-> FALSE]
\* Queue.__init__ with maxsize > 0 leaves _not_full released
LocksFree == [display |-> FALSE, file |-> FALSE]
CallerRuns == [pc |-> "run", q |-> "", item |-> <<>>]
\* no editing operation has run yet; no pure function is under examination
EdStart == [ops |-> 0, last_op |-> "none", prev_op |-> "none",
            before |-> << <<>>, 0 >>, before2 |-> << <<>>, 0 >>,
            file |-> <<>>, file2 |-> <<>>, seen |-> {}]
FnNone == [op |-> "none"]
\* file_menu has not been called
FmClosed == [state |-> "closed", files |-> <<>>, idx |-> 0, window |-> 0,
             from_editor |-> FALSE, active |-> "", choice |-> "",
             key |-> ""]

\* ------------------------------------------------------------------------
\* The cooperative executor (main_async.py)
\* ------------------------------------------------------------------------
\* the state when main_async has started the tasks: the menu is on screen
InitAsync ==
    /\ text_buffer = <<>>
    /\ cursor_index = 0
    /\ current_page_index = 0
    /\ ACTIVE_FILE = ""
    /\ files = [f \in {FileNames[i] : i \in 1..Len(FileNames)} |-> <<>>]
    /\ file_dirty = FALSE
    /\ display_dirty = FALSE
    /\ app_mode = "menu"
    /\ menu_selected_index = 0
    /\ menu_files = FileNames
    /\ app_should_exit = FALSE
    /\ display_refresh_requested = FALSE
    /\ display_refresh_type = "partial"
    /\ fifo = <<>>
    /\ held = {}
    /\ presses = 0
    /\ current_pressed = {}
    /\ kb = KbIdle
    /\ dm = DmIdle
    /\ sv = [t \in SaveCallers |-> SvIdle]
    /\ im = [pc |-> "sleep", active |-> FALSE]
    /\ fb = MenuImage(Len(FileNames), 0)
    /\ ram = MenuImage(Len(FileNames), 0)
    /\ panel = MenuImage(Len(FileNames), 0)
    /\ busy = FALSE
    /\ busy_ms = 0
    /\ busy_kind = "full"
    /\ since_key = 0
    /\ since_refresh = throttle_ms
    /\ since_save = save_throttle_ms
    /\ since_phys = throttle_ms
    /\ dispatched = 0
    /\ burst_refreshes = 0
    /\ display_queue = <<>>
    /\ file_queue = <<>>
    /\ wk = WkIdle
    /\ mt = MtStart
    /\ expected = << <<>> >>
    /\ queue = <<>>
    /\ pr = PrIdle
    /\ owed = NothingOwed
    /\ queue_class = "fallback"
    /\ not_full = LocksFree
    /\ caller = CallerRuns
    /\ view_page_index = 0
    /\ view_subpage_index = 0
    /\ fm = FmClosed
    /\ current_subpage_index = 0
    /\ ed = EdStart
    /\ fn = FnNone
    /\ fsq = FsqIdle
    /\ cl = ClNone
    /\ qu = QuNone

\* a step of a task other than the scanner: the scanner is not in the middle
\* of its synchronous dispatch loop
OtherTaskStep ==
    /\ kb.pc # "dispatch"
    /\ \/ DmPoll \/ DmDraw \/ DmSend \/ DmActivate \/ DmDone
       \/ SaverPoll
       \/ \E t \in SaveCallers : SaveLoad(t) \/ SaveWrite(t) \/ SaveFinish(t)
       \/ ImPoll \/ ImSend \/ ImActivate \/ ImDone \/ ImResume

NextAsync ==
    \/ \E k \in KeySet : KeyPress(k) \/ KeyRelease(k)
    \/ KbScan \/ KbDispatch
    \/ KbMenuSend \/ KbMenuActivate \/ KbMenuDone \/ KbLoad \/ KbLoaded
    \/ OtherTaskStep
    \/ PanelDone
    \/ Tick
    \/ IdleLeap

SpecAsync == InitAsync /\ [][NextAsync]_vars


\* ------------------------------------------------------------------------
\* The threaded executor (main_threaded_v4.py): main thread and worker
\* ------------------------------------------------------------------------
asyncVars == << modeVars, reqVars, hwKeyVars, current_pressed, kb, dm, sv, im,
                busy, busy_ms, busy_kind, timeVars, dispatched,
                burst_refreshes, apiVars, importVars, viewVars, edVars >>

\* a put that makes room for the newest item by discarding the oldest
QueuePutNewestWins(items, item) ==
    IF Len(items) < QueueMaxsize
    THEN [items |-> Append(items, item), ok |-> TRUE]
    ELSE [items |-> Append(Tail(items), item), ok |-> TRUE]

\* Queue.put of the fallback Queue: append below maxsize, else refuse
QueuePut(items, item) ==
    IF Len(items) < QueueMaxsize
    THEN [items |-> Append(items, item), ok |-> TRUE]
    ELSE [items |-> items, ok |-> FALSE]

\* the content save_current_page builds: the file as it is on storage now,
\* with the current page replaced by the buffer
SaveContent ==
    merge_pages(PagesWith(split_into_pages(files[ACTIVE_FILE]),
                          current_page_index, text_buffer))

SaveRequest == [path |-> ACTIVE_FILE, content |-> SaveContent]

MtDone(op, ok) == mt' = [ops |-> mt.ops + 1, last_op |-> op, put_ok |-> ok]

\* save_current_page -> request_file_save: queue the whole file content;
\* file_dirty is cleared only when the put was accepted
MtSaveCurrentPage(op) ==
    LET r == QueuePut(file_queue, SaveRequest) IN
    /\ file_queue' = r.items
    /\ file_dirty' = IF r.ok THEN FALSE ELSE file_dirty
    /\ expected' = IF r.ok
                   THEN PagesWith(expected, current_page_index, text_buffer)
                   ELSE expected
    /\ MtDone(op, r.ok)

\* a character key in the editor
MtType ==
    /\ mt.ops < MaxOps
    /\ Len(text_buffer) < MaxText
    /\ insert_char("a")
    /\ MtDone("type", TRUE)
    /\ UNCHANGED << current_page_index, ACTIVE_FILE, files, fb, ram, panel,
                    display_queue, file_queue, wk, expected, asyncVars >>

\* main loop: "if is_dirty and idle > refresh_pause_ms: refresh_display()":
\* render on the main thread, then request_display_refresh('full')
MtRefresh ==
    /\ mt.ops < MaxOps
    /\ display_dirty
    /\ fb' = RenderDoc(text_buffer, cursor_index)
    /\ LET r == QueuePut(display_queue, "full") IN
       /\ display_queue' = r.items
       /\ display_dirty' = IF r.ok THEN FALSE ELSE display_dirty
       /\ MtDone("refresh", r.ok)
    /\ UNCHANGED << docVars, ACTIVE_FILE, files, file_dirty, ram, panel,
                    file_queue, wk, expected, asyncVars >>

\* main loop: the periodic flush of a dirty file
MtFlush ==
    /\ mt.ops < MaxOps
    /\ file_dirty
    /\ MtSaveCurrentPage("flush")
    /\ UNCHANGED << docVars, ACTIVE_FILE, files, display_dirty, fb, ram,
                    panel, display_queue, wk, asyncVars >>

\* Ctrl+S: action_save
MtSave ==
    /\ mt.ops < MaxOps
    /\ MtSaveCurrentPage("save")
    /\ UNCHANGED << docVars, ACTIVE_FILE, files, display_dirty, fb, ram,
                    panel, display_queue, wk, asyncVars >>

\* Shift+Enter: new_page_marker
MtNewPage ==
    /\ mt.ops < MaxOps
    /\ current_page_index + 1 < MaxPages
    /\ LET r == QueuePut(file_queue, SaveRequest)
           d1 == QueuePut(display_queue, "clear")
           d2 == QueuePut(d1.items, "full")
       IN /\ file_queue' = r.items
          /\ expected' = IF r.ok
                         THEN PagesWith(expected, current_page_index, text_buffer)
                         ELSE expected
          /\ display_queue' = d2.items
          /\ display_dirty' = IF d1.ok \/ d2.ok THEN FALSE ELSE display_dirty
          /\ MtDone("newpage", r.ok)
    /\ current_page_index' = current_page_index + 1
    /\ text_buffer' = <<>>
    /\ cursor_index' = 0
    /\ file_dirty' = TRUE
    /\ fb' = RenderDoc(<<>>, 0)
    /\ UNCHANGED << ACTIVE_FILE, files, ram, panel, wk, asyncVars >>

\* worker_thread, "while not worker_should_stop", display part: take one
\* request.  main sets worker_should_stop where it leaves its loop, which is
\* where the model sets app_should_exit.
WkDisplayGet ==
    /\ wk.pc = "display"
    /\ ~app_should_exit
    /\ display_queue # <<>>
    /\ wk' = [wk EXCEPT !.pc = "refresh", !.kind = Head(display_queue)]
    /\ display_queue' = Tail(display_queue)
    /\ UNCHANGED << docVars, ACTIVE_FILE, files, file_dirty, display_dirty,
                    fb, ram, panel, file_queue, mt, expected, asyncVars >>

\* the refresh under spi_lock begins: the transfer of epd.buffer_1Gray over
\* the bus starts with the framebuffer as it is now
WkRefresh ==
    /\ wk.pc = "refresh"
    /\ ram' = IF wk.kind = "clear" THEN BlankImage ELSE fb
    /\ wk' = [wk EXCEPT !.pc = "sending"]
    /\ UNCHANGED << docVars, ACTIVE_FILE, files, file_dirty, display_dirty,
                    fb, panel, display_queue, file_queue, mt, expected,
                    asyncVars >>

\* the transfer and the panel update are over.  The main thread draws into
\* the framebuffer without spi_lock: what it drew during the transfer may
\* or may not have been sent
WkSent ==
    /\ wk.pc = "sending"
    /\ \E img \in {ram, IF wk.kind = "clear" THEN ram ELSE fb} :
          /\ ram' = img
          /\ panel' = img
    /\ wk' = [WkIdle EXCEPT !.pc = "file"]
    /\ UNCHANGED << docVars, ACTIVE_FILE, files, file_dirty, display_dirty,
                    fb, display_queue, file_queue, mt, expected, asyncVars >>

\* nothing to refresh: on to the file part
WkDisplaySkip ==
    /\ wk.pc = "display"
    /\ ~app_should_exit
    /\ display_queue = <<>>
    /\ file_queue # <<>>
    /\ wk' = [WkIdle EXCEPT !.pc = "file"]
    /\ UNCHANGED << docVars, ACTIVE_FILE, files, file_dirty, display_dirty,
                    fb, ram, panel, display_queue, file_queue, mt, expected,
                    asyncVars >>

\* worker_thread, file part: take one request
WkFileGet ==
    /\ wk.pc = "file"
    /\ file_queue # <<>>
    /\ wk' = [wk EXCEPT !.pc = "write", !.path = Head(file_queue).path,
                        !.content = Head(file_queue).content]
    /\ file_queue' = Tail(file_queue)
    /\ UNCHANGED << docVars, ACTIVE_FILE, files, file_dirty, display_dirty,
                    fb, ram, panel, display_queue, mt, expected, asyncVars >>

\* open(path, 'w'); f.write(content)
WkWrite ==
    /\ wk.pc = "write"
    /\ files' = [files EXCEPT ![wk.path] = wk.content]
    /\ wk' = WkIdle
    /\ UNCHANGED << docVars, ACTIVE_FILE, file_dirty, display_dirty, fb, ram,
                    panel, display_queue, file_queue, mt, expected,
                    asyncVars >>

\* nothing to write: sleep 10 ms, next pass
WkFileSkip ==
    /\ wk.pc = "file"
    /\ file_queue = <<>>
    /\ display_queue # <<>>
    /\ wk' = WkIdle
    /\ UNCHANGED << docVars, ACTIVE_FILE, files, file_dirty, display_dirty,
                    fb, ram, panel, display_queue, file_queue, mt, expected,
                    asyncVars >>

\* worker_should_stop is set when the worker tests it: the loop ends,
\* worker_running = False
WkStop ==
    /\ wk.pc = "display"
    /\ app_should_exit
    /\ wk' = [WkIdle EXCEPT !.pc = "stopped"]
    /\ UNCHANGED << docVars, ACTIVE_FILE, files, file_dirty, display_dirty,
                    fb, ram, panel, display_queue, file_queue, mt, expected,
                    asyncVars >>

\* an empty file open in the editor and shown on the panel
EmptyDocument ==
    /\ text_buffer = <<>>
    /\ cursor_index = 0
    /\ current_page_index = 0
    /\ current_subpage_index = 0
    /\ ACTIVE_FILE = FileNames[1]
    /\ files = [f \in {FileNames[i] : i \in 1..Len(FileNames)} |-> <<>>]
    /\ fb = RenderDoc(<<>>, 0)
    /\ ram = RenderDoc(<<>>, 0)
    /\ panel = RenderDoc(<<>>, 0)

\* editor mode, both queues empty, nothing in progress
MachineIdle ==
    /\ file_dirty = FALSE
    /\ display_dirty = FALSE
    /\ app_mode = "editor"
    /\ menu_selected_index = 0
    /\ menu_files = FileNames
    /\ app_should_exit = FALSE
    /\ display_refresh_requested = FALSE
    /\ display_refresh_type = "partial"
    /\ fifo = <<>>
    /\ held = {}
    /\ presses = 0
    /\ current_pressed = {}
    /\ kb = KbIdle
    /\ dm = DmIdle
    /\ sv = [t \in SaveCallers |-> SvIdle]
    /\ im = [pc |-> "sleep", active |-> FALSE]
    /\ busy = FALSE
    /\ busy_ms = 0
    /\ busy_kind = "full"
    /\ since_key = 0
    /\ since_refresh = throttle_ms
    /\ since_save = save_throttle_ms
    /\ since_phys = throttle_ms
    /\ dispatched = 0
    /\ burst_refreshes = 0
    /\ display_queue = <<>>
    /\ file_queue = <<>>
    /\ wk = WkIdle
    /\ mt = MtStart
    /\ expected = << <<>> >>
    /\ queue = <<>>
    /\ pr = PrIdle
    /\ owed = NothingOwed
    /\ not_full = LocksFree
    /\ caller = CallerRuns
    /\ view_page_index = 0
    /\ view_subpage_index = 0
    /\ fm = FmClosed
    /\ ed = EdStart
    /\ fsq = FsqIdle

\* the editor open on an empty file, both queues empty, nothing in progress
EditorIdle == EmptyDocument /\ MachineIdle

EditorOpen == EditorIdle /\ fn = FnNone /\ cl = ClNone /\ qu = QuNone

InitThread == EditorOpen /\ queue_class = "fallback"

NextThread ==
    \/ MtType \/ MtRefresh \/ MtFlush \/ MtSave \/ MtNewPage
    \/ WkDisplayGet \/ WkRefresh \/ WkSent \/ WkDisplaySkip
    \/ WkFileGet \/ WkWrite \/ WkFileSkip

SpecThread == InitThread /\ [][NextThread]_vars

\* ------------------------------------------------------------------------
\* The two refresh-request interfaces under arbitrary callers:
\* request_display_refresh + display_manager_task (main_async.py) and
\* DisplayQueue (display_async.py)
\* ------------------------------------------------------------------------
RefreshKinds == {"partial", "full"}

rqRest == << current_page_index, ACTIVE_FILE, files, modeVars, hwKeyVars,
             current_pressed, kb, sv, im, fb, panelVars, since_save,
             since_phys, dispatched, burst_refreshes, workerVars,
             importVars, viewVars, edVars >>

\* a caller runs request_display_refresh(kind)
RqRequest(kind) ==
    /\ request_display_refresh(kind)
    /\ owed' = [owed EXCEPT !.flag = @ \/ kind = "full"]
    /\ UNCHANGED << text_buffer, cursor_index, file_dirty, dm, since_key,
                    since_refresh, queue, pr, rqRest >>

\* a character key is handled in the editor: last_key_time = now, insert_char
RqKeystroke ==
    /\ Len(text_buffer) < MaxText
    /\ insert_char("a")
    /\ since_key' = 0
    /\ UNCHANGED << reqVars, dm, since_refresh, apiVars, rqRest >>

\* a pass of display_manager_task that refreshes, up to the start of the
\* panel update: an explicit request is served with its type, a dirty
\* display with a partial refresh
RqDmStart ==
    /\ dm.pc = "sleep"
    /\ DmReady
    /\ LET kind == IF display_refresh_requested /\ display_refresh_type = "full"
                   THEN "full" ELSE "partial" IN
       /\ dm' = [DmIdle EXCEPT !.pc = "wait", !.kind = kind,
                               !.from = IF display_refresh_requested
                                        THEN "req" ELSE "dirty"]
       /\ owed' = [owed EXCEPT !.flag = IF kind = "full" THEN FALSE ELSE @]
    /\ UNCHANGED << text_buffer, cursor_index, file_dirty, display_dirty,
                    reqVars, since_key, since_refresh, queue, pr, rqRest >>

\* the refresh returned: last_refresh_time = now; after a served request
\* display_refresh_requested = False
RqDmDone ==
    /\ dm.pc = "wait"
    /\ since_refresh' = 0
    /\ display_refresh_requested' =
          IF dm.from = "req" THEN FALSE ELSE display_refresh_requested
    /\ dm' = DmIdle
    /\ UNCHANGED << text_buffer, cursor_index, file_dirty, display_dirty,
                    display_refresh_type, since_key, apiVars, rqRest >>

\* DisplayQueue.request_refresh: refused when the queue is full
DqRequest(kind) ==
    /\ queue' = IF Len(queue) >= DisplayQueueMaxsize THEN queue
                ELSE Append(queue, kind)
    /\ owed' = [owed EXCEPT !.queue = @ \/ kind = "full"]
    /\ UNCHANGED << text_buffer, cursor_index, file_dirty, display_dirty,
                    reqVars, dm, since_key, since_refresh, pr, rqRest >>

\* process_refreshes: queue.get(), then the throttle check
PrGet ==
    /\ pr.pc = "get"
    /\ queue # <<>>
    /\ queue' = Tail(queue)
    /\ pr' = [pr EXCEPT !.kind = Head(queue),
                        !.pc = IF pr.since < throttle_ms
                               THEN "throttle" ELSE "refresh"]
    /\ UNCHANGED << text_buffer, cursor_index, file_dirty, display_dirty,
                    reqVars, dm, since_key, since_refresh, owed, rqRest >>

\* sleep_ms(throttle_ms - elapsed) is over
PrThrottle ==
    /\ pr.pc = "throttle"
    /\ pr.since >= throttle_ms
    /\ pr' = [pr EXCEPT !.pc = "refresh"]
    /\ UNCHANGED << text_buffer, cursor_index, file_dirty, display_dirty,
                    reqVars, dm, since_key, since_refresh, queue, owed,
                    rqRest >>

\* the refresh of the dequeued type starts
PrStart ==
    /\ pr.pc = "refresh"
    /\ pr' = [pr EXCEPT !.pc = "wait"]
    /\ owed' = [owed EXCEPT !.queue = IF pr.kind = "full" THEN FALSE ELSE @]
    /\ UNCHANGED << text_buffer, cursor_index, file_dirty, display_dirty,
                    reqVars, dm, since_key, since_refresh, queue, rqRest >>

\* the refresh returned: last_refresh_time = now
PrDone ==
    /\ pr.pc = "wait"
    /\ pr' = [pr EXCEPT !.pc = "get", !.since = 0]
    /\ UNCHANGED << text_buffer, cursor_index, file_dirty, display_dirty,
                    reqVars, dm, since_key, since_refresh, queue, owed,
                    rqRest >>

\* throttle_ms elapse while no task has a step it takes at once
RqTick ==
    /\ ~(dm.pc = "sleep" /\ DmReady)
    /\ pr.pc # "refresh"
    /\ ~(pr.pc = "get" /\ queue # <<>>)
    /\ ~(pr.pc = "throttle" /\ pr.since >= throttle_ms)
    /\ since_key' = Capped(since_key, quiet_ms)
    /\ since_refresh' = Capped(since_refresh, throttle_ms)
    /\ pr' = [pr EXCEPT !.since = Capped(@, throttle_ms)]
    /\ UNCHANGED << text_buffer, cursor_index, file_dirty, display_dirty,
                    reqVars, dm, queue, owed, rqRest >>

\* the editor is open on an empty file, nothing is pending
InitRequests == InitThread

NextRequests ==
    \/ \E kind \in RefreshKinds : RqRequest(kind)
    \/ RqKeystroke
    \/ RqDmStart
    \/ RqDmDone
    \/ \E kind \in RefreshKinds : DqRequest(kind)
    \/ PrGet
    \/ PrThrottle
    \/ PrStart
    \/ PrDone
    \/ RqTick

SpecRequests == InitRequests /\ [][NextRequests]_vars

\* ------------------------------------------------------------------------
\* main_threaded.py with either Queue class: the fallback class of its
\* except branch, or the Queue of queue.py when "from queue import Queue"
\* succeeds
\* ------------------------------------------------------------------------
QueueClasses == {"fallback", "module"}

tqRest == << current_page_index, ACTIVE_FILE, modeVars, reqVars, hwKeyVars,
             current_pressed, kb, dm, sv, im, busy, busy_ms, busy_kind,
             timeVars, dispatched, burst_refreshes, wk, mt, expected,
             apiVars, queue_class, viewVars, edVars >>

\* queue.put(item) called by the main thread on queue q holding items.
\* Fallback class: QueuePut.  queue.py: append when there is room and
\* return None; when full, leave the lock and wait for _not_full.
TqPut(q, items, item) ==
    IF queue_class = "fallback"
    THEN [items |-> QueuePut(items, item).items,
          success |-> QueuePut(items, item).ok, caller |-> CallerRuns]
    ELSE IF Len(items) < QueueMaxsize
    THEN [items |-> Append(items, item), success |-> FALSE,
          caller |-> CallerRuns]
    ELSE [items |-> items, success |-> FALSE,
          caller |-> [pc |-> "put", q |-> q, item |-> item]]

TqType ==
    /\ caller.pc = "run"
    /\ Len(text_buffer) < MaxText
    /\ insert_char("a")
    /\ UNCHANGED << files, fb, ram, panel, display_queue, file_queue,
                    not_full, caller, tqRest >>

\* main loop: is_dirty and idle: refresh_display() renders and calls
\* request_display_refresh('partial'); display_dirty is cleared "if success"
TqRefresh ==
    /\ caller.pc = "run"
    /\ display_dirty
    /\ fb' = RenderDoc(text_buffer, cursor_index)
    /\ LET r == TqPut("display", display_queue, "partial") IN
       /\ display_queue' = r.items
       /\ display_dirty' = IF r.success THEN FALSE ELSE display_dirty
       /\ caller' = r.caller
    /\ UNCHANGED << text_buffer, cursor_index, file_dirty, files, ram, panel,
                    file_queue, not_full, tqRest >>

\* main loop: file_dirty and the flush interval is over: save_current_page()
\* calls request_file_save; file_dirty is cleared "if success"
TqFlush ==
    /\ caller.pc = "run"
    /\ file_dirty
    /\ LET r == TqPut("file", file_queue, SaveRequest) IN
       /\ file_queue' = r.items
       /\ file_dirty' = IF r.success THEN FALSE ELSE file_dirty
       /\ caller' = r.caller
    /\ UNCHANGED << text_buffer, cursor_index, display_dirty, files, fb, ram,
                    panel, display_queue, not_full, tqRest >>

\* Queue.put of queue.py on a full queue: _not_full.acquire() returns, the
\* loop tests the length again
TqPutWait ==
    /\ caller.pc = "put"
    /\ ~not_full[caller.q]
    /\ not_full' = [not_full EXCEPT ![caller.q] = TRUE]
    /\ LET items == IF caller.q = "display" THEN display_queue ELSE file_queue
           room == Len(items) < QueueMaxsize IN
       /\ display_queue' = IF room /\ caller.q = "display"
                           THEN Append(display_queue, caller.item)
                           ELSE display_queue
       /\ file_queue' = IF room /\ caller.q = "file"
                        THEN Append(file_queue, caller.item)
                        ELSE file_queue
       /\ caller' = IF room THEN CallerRuns ELSE caller
    /\ UNCHANGED << text_buffer, cursor_index, display_dirty, file_dirty,
                    files, fb, ram, panel, tqRest >>

\* worker_thread: display_queue.get() and the refresh of the framebuffer;
\* Queue.get of queue.py releases _not_full
TqWkDisplay ==
    /\ display_queue # <<>>
    /\ display_queue' = Tail(display_queue)
    /\ not_full' = IF queue_class = "module"
                   THEN [not_full EXCEPT !.display = FALSE] ELSE not_full
    /\ ram' = fb
    /\ panel' = fb
    /\ UNCHANGED << text_buffer, cursor_index, display_dirty, file_dirty,
                    files, fb, file_queue, caller, tqRest >>

\* what "with open(path, 'w') as f: f.write(content)" leaves on storage:
\* the content; the file as it was when open() raised; an emptied file when
\* write() raised.  worker_thread prints the error and goes on.
WriteOutcomes(old, content) == {content, old, <<>>}

\* worker_thread: file_queue.get() and the write of the file
TqWkFile ==
    /\ file_queue # <<>>
    /\ file_queue' = Tail(file_queue)
    /\ not_full' = IF queue_class = "module"
                   THEN [not_full EXCEPT !.file = FALSE] ELSE not_full
    /\ \E written \in WriteOutcomes(files[Head(file_queue).path],
                                     Head(file_queue).content) :
          files' = [files EXCEPT ![Head(file_queue).path] = written]
    /\ UNCHANGED << text_buffer, cursor_index, display_dirty, file_dirty,
                    fb, ram, panel, display_queue, caller, tqRest >>

InitImport == EditorOpen /\ queue_class \in QueueClasses

NextImport ==
    \/ TqType
    \/ TqRefresh
    \/ TqFlush
    \/ TqPutWait
    \/ TqWkDisplay
    \/ TqWkFile

SpecImport == InitImport /\ [][NextImport]_vars

\* ------------------------------------------------------------------------
\* The threaded executor with its modes: menu, editor and paged view
\* (main_threaded_v4.py main, handle_menu_input, show_menu)
\* ------------------------------------------------------------------------
\* the main loop is running and takes a key
KeysRun == ~app_should_exit /\ mt.ops < MaxKeys

\* load_pages
load_pages(path) == split_into_pages(files[path])

\* the text of page i of the list, "" when there is no such page
PageText(pages, i) == IF i < Len(pages) THEN pages[i + 1] ELSE <<>>

\* the subpages of a page in paged view, which leaves room for the footer
ViewSubpages(text) ==
    get_screen_pages(text, EPD_WIDTH, EPD_HEIGHT - 2 * CHAR_HEIGHT)

\* display_page: the subpage, the footer and the page label
PageImage(page_num, subpage_num, total_pages, text) ==
    LET sp == ViewSubpages(text)
        n == IF subpage_num >= Len(sp) THEN Len(sp) - 1 ELSE subpage_num IN
    [kind |-> "page", glyphs |-> sp[n + 1], cur |-> <<page_num, total_pages>>]

\* where PgUp / PgDn move the view from page vp, subpage vs
ViewAfter(lbl, pages, vp, vs) ==
    IF lbl = "PgUp"
    THEN IF vs > 0 THEN <<vp, vs - 1>>
         ELSE IF vp > 0
         THEN <<vp - 1, Len(ViewSubpages(PageText(pages, vp - 1))) - 1>>
         ELSE <<vp, vs>>
    ELSE IF vs < Len(ViewSubpages(PageText(pages, vp))) - 1 THEN <<vp, vs + 1>>
         ELSE IF vp < Len(pages) - 1 THEN <<vp + 1, 0>>
         ELSE <<vp, vs>>

\* PgUp or PgDn in the editor or in paged view.  From the editor the page is
\* saved first (a request to the worker) and the view starts at the page
\* being edited; then the pages are read from storage, the view moves and
\* display_page requests a full refresh.
KmPage(lbl) ==
    /\ KeysRun
    /\ app_mode \in {"editor", "paged_view"}
    /\ LET entering == app_mode = "editor"
           saving == entering /\ (file_dirty \/ text_buffer # <<>>)
           r == QueuePut(file_queue, SaveRequest)
           pages == load_pages(ACTIVE_FILE)
           vp == IF entering THEN current_page_index ELSE view_page_index
           vs == IF entering THEN 0 ELSE view_subpage_index
           v == ViewAfter(lbl, pages, vp, vs)
           d == QueuePut(display_queue, "full") IN
       /\ file_queue' = IF saving THEN r.items ELSE file_queue
       /\ file_dirty' = IF saving /\ r.ok THEN FALSE ELSE file_dirty
       /\ expected' = IF saving /\ r.ok
                      THEN PagesWith(expected, current_page_index, text_buffer)
                      ELSE expected
       /\ app_mode' = "paged_view"
       /\ view_page_index' = v[1]
       /\ view_subpage_index' = v[2]
       /\ fb' = PageImage(v[1], v[2], Len(pages), PageText(pages, v[1]))
       /\ display_queue' = d.items
       /\ display_dirty' = FALSE
       /\ MtDone(lbl, TRUE)
    /\ UNCHANGED << docVars, ACTIVE_FILE, files, ram, panel, wk,
                    menu_selected_index, menu_files, app_should_exit, reqVars,
                    hwKeyVars, current_pressed, kb, dm, sv, im, busy, busy_ms,
                    busy_kind, timeVars, dispatched, burst_refreshes, apiVars,
                    importVars, fm, edVars >>

\* a paged view that would pass the key on to the editor
paged_view_key_typed(lbl) ==
    /\ text_buffer' = text_buffer \o << lbl >>
    /\ cursor_index' = cursor_index + 1
    /\ UNCHANGED << current_page_index, file_dirty, display_dirty, fb >>

\* what a key other than PgUp, PgDn and Home does to the Document in paged
\* view: nothing
paged_view_key(lbl) == UNCHANGED << docVars, file_dirty, display_dirty, fb >>

\* any other key in paged view
KmPagedOther ==
    /\ KeysRun
    /\ app_mode = "paged_view"
    /\ \E lbl \in {"a", "Esc"} :
          /\ paged_view_key(lbl)
          /\ MtDone(lbl, TRUE)
    /\ UNCHANGED << ACTIVE_FILE, files, ram, panel, wk, modeVars, reqVars,
                    hwKeyVars, current_pressed, kb, dm, sv, im, busy, busy_ms,
                    busy_kind, timeVars, dispatched, burst_refreshes,
                    display_queue, file_queue, expected, apiVars, importVars,
                    viewVars, edVars >>

\* Home in paged view: in_paged_view = False, app_mode = 'editor',
\* refresh_display()
KmHome ==
    /\ KeysRun
    /\ app_mode = "paged_view"
    /\ app_mode' = "editor"
    /\ fb' = RenderDoc(text_buffer, cursor_index)
    /\ LET d == QueuePut(display_queue, "full") IN
       /\ display_queue' = d.items
       /\ display_dirty' = IF d.ok THEN FALSE ELSE display_dirty
       /\ MtDone("Home", d.ok)
    /\ UNCHANGED << docVars, ACTIVE_FILE, files, file_dirty, ram, panel, wk,
                    menu_selected_index, menu_files, app_should_exit, reqVars,
                    hwKeyVars, current_pressed, kb, dm, sv, im, busy, busy_ms,
                    busy_kind, timeVars, dispatched, burst_refreshes,
                    file_queue, expected, apiVars, importVars, viewVars, edVars >>

\* Esc in the editor: app_mode = 'menu'; show_menu() lists the files, draws
\* the menu and refreshes the panel itself under spi_lock (it waits while the
\* worker holds the lock).  When that refresh raises, the exception leaves
\* the while loop of main: its except clause prints it and the finally
\* clause sets worker_should_stop and queues a last save of a dirty page.
KmEsc ==
    /\ KeysRun
    /\ app_mode = "editor"
    /\ wk.pc # "sending"
    /\ app_mode' = "menu"
    /\ menu_files' = FileNames
    /\ menu_selected_index' = IF menu_selected_index >= Len(FileNames)
                              THEN Len(FileNames) - 1 ELSE menu_selected_index
    /\ fb' = MenuImage(Len(FileNames), menu_selected_index')
    /\ \E raised \in BOOLEAN :
          IF raised
          THEN LET r == QueuePut(file_queue, SaveRequest) IN
               /\ app_should_exit' = TRUE
               /\ file_queue' = IF file_dirty THEN r.items ELSE file_queue
               /\ file_dirty' = IF file_dirty /\ r.ok THEN FALSE ELSE file_dirty
               /\ expected' = IF file_dirty /\ r.ok
                              THEN PagesWith(expected, current_page_index,
                                             text_buffer)
                              ELSE expected
               /\ MtDone("show_menu raised", TRUE)
               /\ UNCHANGED << ram, panel >>
          ELSE /\ ram' = fb'
               /\ panel' = fb'
               /\ MtDone("Esc", TRUE)
               /\ UNCHANGED << app_should_exit, file_queue, file_dirty,
                               expected >>
    /\ UNCHANGED << docVars, ACTIVE_FILE, files, display_dirty, wk, reqVars,
                    hwKeyVars, current_pressed, kb, dm, sv, im, busy, busy_ms,
                    busy_kind, timeVars, dispatched, burst_refreshes,
                    display_queue, apiVars, importVars, viewVars, edVars >>

\* FileHelper.load_file: the content of the file, or the empty string when
\* open() or read() raised
load_file(path, raised) == IF raised THEN <<>> ELSE files[path]

\* handle_menu_input('Enter'): open the selected file: request a clear, load
\* the last page of the file (load_previous), app_mode = 'editor',
\* refresh_display_full()
KmMenuEnter ==
    /\ KeysRun
    /\ app_mode = "menu"
    /\ menu_files # <<>>
    /\ \E raised \in BOOLEAN :
       LET path == menu_files[menu_selected_index + 1]
           pages == split_into_pages(load_file(path, raised))
           c == QueuePut(display_queue, "clear")
           d == QueuePut(c.items, "full") IN
       /\ ACTIVE_FILE' = path
       /\ current_page_index' = Len(pages) - 1
       /\ text_buffer' = pages[Len(pages)]
       /\ cursor_index' = Len(pages[Len(pages)])
       /\ fb' = RenderDoc(text_buffer', cursor_index')
       /\ display_queue' = d.items
       /\ display_dirty' = IF c.ok \/ d.ok THEN FALSE ELSE display_dirty
       /\ MtDone(IF raised THEN "load raised" ELSE "Enter", d.ok)
    /\ app_mode' = "editor"
    /\ UNCHANGED << files, file_dirty, ram, panel, wk, menu_selected_index,
                    menu_files, app_should_exit, reqVars, hwKeyVars,
                    current_pressed, kb, dm, sv, im, busy, busy_ms, busy_kind,
                    timeVars, dispatched, burst_refreshes, file_queue,
                    expected, apiVars, importVars, viewVars, edVars >>

\* handle_menu_input('Esc') returns False: worker_should_stop = True, main
\* returns through its finally clause, which queues a last save of a dirty
\* page
KmMenuEsc ==
    /\ KeysRun
    /\ app_mode = "menu"
    /\ app_should_exit' = TRUE
    /\ LET r == QueuePut(file_queue, SaveRequest) IN
       /\ file_queue' = IF file_dirty THEN r.items ELSE file_queue
       /\ file_dirty' = IF file_dirty /\ r.ok THEN FALSE ELSE file_dirty
       /\ expected' = IF file_dirty /\ r.ok
                      THEN PagesWith(expected, current_page_index, text_buffer)
                      ELSE expected
    /\ MtDone("Esc", TRUE)
    /\ UNCHANGED << docVars, ACTIVE_FILE, files, display_dirty, fb, ram,
                    panel, wk, app_mode, menu_selected_index, menu_files,
                    reqVars, hwKeyVars, current_pressed, kb, dm, sv, im, busy,
                    busy_ms, busy_kind, timeVars, dispatched, burst_refreshes,
                    display_queue, apiVars, importVars, viewVars, edVars >>

\* the orders in which "for k in new_keys" can visit a set of keys: a set
\* keeps no trace of the order in which its members were added
Orders(S) ==
    { ord \in [1..Cardinality(S) -> S] :
        \A k \in S : \E i \in 1..Cardinality(S) : ord[i] = k }

\* the typist presses two character keys within one pass of the main
\* loop; the controller queues the press events in the order of the presses
KmKeysDown ==
    /\ KeysRun
    /\ app_mode = "editor"
    /\ fifo = <<>>
    /\ current_pressed = {}
    /\ Len(text_buffer) + 2 <= MaxText
    /\ \E first \in {"a", "b"} :
          fifo' = << <<first, TRUE>>,
                     <<IF first = "a" THEN "b" ELSE "a", TRUE>> >>
    /\ UNCHANGED << docVars, ACTIVE_FILE, files, file_dirty, display_dirty,
                    modeVars, reqVars, held, presses, current_pressed, kb,
                    dm, sv, im, fb, panelVars, timeVars, dispatched,
                    burst_refreshes, workerVars, apiVars, importVars,
                    viewVars, edVars >>

\* the keys are let go
KmKeysUp ==
    /\ KeysRun
    /\ app_mode = "editor"
    /\ fifo = <<>>
    /\ current_pressed = {"a", "b"}
    /\ fifo' = << <<"a", FALSE>>, <<"b", FALSE>> >>
    /\ UNCHANGED << docVars, ACTIVE_FILE, files, file_dirty, display_dirty,
                    modeVars, reqVars, held, presses, current_pressed, kb,
                    dm, sv, im, fb, panelVars, timeVars, dispatched,
                    burst_refreshes, workerVars, apiVars, importVars,
                    viewVars, edVars >>

\* a pass of the main loop in the editor with events in the FIFO:
\* pressed = scan_keys(); new_keys = pressed - prev_keys; for k in new_keys:
\* insert_char(glyph); prev_keys = pressed (prev_keys is current_pressed as
\* the pass before left it)
KmScan ==
    /\ KeysRun
    /\ app_mode = "editor"
    /\ fifo # <<>>
    /\ LET pressed == ApplyEvents(fifo, current_pressed)
           new_keys == pressed \ current_pressed IN
       /\ current_pressed' = pressed
       /\ fifo' = <<>>
       /\ \E ord \in Orders(new_keys) :
             /\ text_buffer' = SubSeq(text_buffer, 1, cursor_index) \o ord
                               \o SubSeq(text_buffer, cursor_index + 1,
                                         Len(text_buffer))
             /\ cursor_index' = cursor_index + Len(ord)
       /\ display_dirty' = IF new_keys # {} THEN TRUE ELSE display_dirty
       /\ file_dirty' = IF new_keys # {} THEN TRUE ELSE file_dirty
       /\ MtDone("scan", TRUE)
    /\ UNCHANGED << current_page_index, ACTIVE_FILE, files, modeVars,
                    reqVars, held, presses, kb, dm, sv, im, fb, panelVars,
                    timeVars, dispatched, burst_refreshes, display_queue,
                    file_queue, wk, expected, apiVars, importVars,
                    viewVars, edVars >>

InitModes == InitThread

NextModes ==
    \/ app_mode = "editor" /\ KeysRun /\ MtType
    \/ app_mode = "editor" /\ KeysRun /\ MtRefresh
    \/ app_mode = "editor" /\ KeysRun /\ MtFlush
    \/ app_mode = "editor" /\ KeysRun /\ MtNewPage
    \/ \E lbl \in {"PgUp", "PgDn"} : KmPage(lbl)
    \/ KmPagedOther
    \/ KmHome
    \/ KmEsc
    \/ KmMenuEnter
    \/ KmMenuEsc
    \/ KmKeysDown
    \/ KmKeysUp
    \/ KmScan
    \/ WkDisplayGet \/ WkRefresh \/ WkSent \/ WkDisplaySkip
    \/ WkFileGet \/ WkWrite \/ WkFileSkip
    \/ WkStop

SpecModes == InitModes /\ [][NextModes]_vars

\* ------------------------------------------------------------------------
\* Properties of the cooperative executor
\* ------------------------------------------------------------------------
\* C1: every key press the controller delivered has been dispatched to the
\* handler of the active mode exactly once, as soon as the scanner has
\* drained the FIFO and finished its pass.
C1_EveryPressDispatched ==
    (kb.pc = "sleep" /\ fifo = <<>> /\ ~app_should_exit) => dispatched = presses


\* the active file holds the Document's text as its current page: writing
\* the page now would leave the file as it is
Persisted ==
    ACTIVE_FILE # "" =>
        files[ACTIVE_FILE] =
            merge_pages(PagesWith(split_into_pages(files[ACTIVE_FILE]),
                                  current_page_index, text_buffer))

\* steps in which a task activates a panel update
DmStartsRefresh == dm.pc = "trig" /\ dm'.pc = "wait"
KbStartsRefresh == kb.pc = "menu_trig" /\ kb'.pc = "menu_wait"
ImStartsRefresh == im.pc = "ss_trig" /\ im'.pc = "ss_wait"

\* C2: after the last input of a burst the display manager performs at most
\* one refresh (the burst is coalesced into a single physical refresh).
C2_OneRefreshPerBurst == burst_refreshes <= 1

\* C3: whenever the display manager starts a physical refresh, the image it
\* has sent to the panel is the rendering of the text buffer and cursor as
\* they are at that moment.
C3_RefreshShowsDocument ==
    [][DmStartsRefresh => ram = RenderDoc(text_buffer, cursor_index)]_vars

\* C5: whenever the editor is left (Escape to the menu) or its buffer is
\* replaced by a file opened from the menu, the Document's text is already
\* in its file.
C5_SavedBeforeLeaving ==
    [][((app_mode = "editor" /\ app_mode' # "editor") \/
        (kb.pc = "load" /\ kb'.pc = "loaded")) => Persisted]_vars

\* C6: when idle_monitor_task takes its screensaver branch, and when it
\* enters sleep, the current page on storage equals the Document buffer.
C6_FlushedBeforeIdle ==
    [][((im.pc = "sleep" /\ im'.pc = "ss_ram") \/
        (im.pc # "slept" /\ im'.pc = "slept")) => Persisted]_vars

\* C8: every physical refresh starts at least throttle_ms after the previous
\* one started, and a refresh of the dirty path (not demanded by a mode
\* transition) starts at least quiet_ms after the last keystroke.
C8_RefreshSpacing ==
    [][(DmStartsRefresh \/ KbStartsRefresh \/ ImStartsRefresh) =>
         /\ since_phys >= throttle_ms
         /\ (DmStartsRefresh /\ dm.from = "dirty") => since_key >= quiet_ms]_vars


\* tasks that have sent part of a refresh's command sequence (the RAM write)
\* and not yet its last command (the activation)
MidSequence ==
    (IF dm.pc = "trig" THEN {"display_manager"} ELSE {})
    \cup (IF kb.pc = "menu_trig" THEN {"keyboard_scanner"} ELSE {})
    \cup (IF im.pc = "ss_trig" THEN {"idle_monitor"} ELSE {})

\* C12: at most one refresh has its command sequence in progress on the
\* display bus.
C12_OneSequenceOnBus == Cardinality(MidSequence) <= 1

\* ------------------------------------------------------------------------
\* Properties of the threaded executor
\* ------------------------------------------------------------------------
\* steps in which the main thread asks for a save / for a refresh
MtAsksSave == mt'.ops # mt.ops /\ mt'.last_op \in {"save", "flush", "newpage"}
MtAsksRefresh == mt'.ops # mt.ops /\ mt'.last_op = "refresh"

\* every accepted save request has been written
SaveQueueDrained == file_queue = <<>> /\ wk.pc # "write"

\* C4: once the save queue is drained, every explicit page of the file holds
\* the text of its most recent accepted save, and the pages that were not
\* saved hold the text they had.
C4_PagesSurviveSaves ==
    SaveQueueDrained => split_into_pages(files[ACTIVE_FILE]) = expected

\* C13: nothing is drawn into the framebuffer while the worker thread is
\* sending it to the display.
C13_NoDrawWhileSending ==
    [][(wk.pc = "sending" /\ wk.kind # "clear") => fb' = fb]_vars

RefreshRefused ==
    mt.last_op = "refresh" /\ ~mt.put_ok /\ Len(display_queue) = QueueMaxsize

\* C10: the save queue holds at most one pending request per path.
C10_OnePendingPerPath ==
    \A i, j \in 1..Len(file_queue) :
        i # j => file_queue[i].path # file_queue[j].path

\* ------------------------------------------------------------------------
\* Properties of the refresh-request interfaces
\* ------------------------------------------------------------------------
\* C7: while a Full refresh is requested and none has started since, the
\* next refresh that starts is a Full one, whatever was requested after it.
C7_PendingFullComesNext ==
    [][/\ (dm.pc = "sleep" /\ dm'.pc = "wait" /\ owed.flag) => dm'.kind = "full"
       /\ (pr.pc = "refresh" /\ pr'.pc = "wait" /\ owed.queue) => pr.kind = "full"]_vars

\* the same for DisplayQueue alone
DqPendingFullComesNext ==
    [][(pr.pc = "refresh" /\ pr'.pc = "wait" /\ owed.queue) => pr.kind = "full"]_vars

\* ------------------------------------------------------------------------
\* Properties of main_threaded.py under either Queue class
\* ------------------------------------------------------------------------
\* C11: the main thread is never held inside a queue put: every render or
\* save request returns at once, also when its queue is full.
C11_RequestNeverWaits == caller.pc = "run"

\* ------------------------------------------------------------------------
\* Properties of the threaded executor's modes
\* ------------------------------------------------------------------------
\* a key is handled with paged view on before and after
PagedViewKey == mt'.ops # mt.ops /\ app_mode = "paged_view" /\ app_mode' = "paged_view"

\* C19: a key handled in paged view leaves the buffer, the cursor, the
\* current page index and the file as they are.
C19_PagedViewReadOnly ==
    [][PagedViewKey => /\ UNCHANGED << text_buffer, cursor_index,
                                       current_page_index, files >>
                       /\ file_queue' = file_queue]_vars

\* a key other than PgUp / PgDn has been handled in paged view with text in
\* the buffer
C19_Witness_KeyInPagedView ==
    /\ app_mode = "paged_view"
    /\ mt.last_op = "a"
    /\ text_buffer # <<>>

\* C20: Home in paged view returns to the editor; when the page on view is
\* not the page being edited, the buffer becomes the text of the page on
\* view, that page becomes the current one and the cursor is at its end.
C20_HomeLoadsViewedPage ==
    [][(app_mode = "paged_view" /\ app_mode' # "paged_view") =>
          /\ app_mode' = "editor"
          /\ IF view_page_index # current_page_index
             THEN /\ text_buffer' = PageText(load_pages(ACTIVE_FILE), view_page_index)
                  /\ current_page_index' = view_page_index
                  /\ cursor_index' = Len(text_buffer')
             ELSE UNCHANGED << text_buffer, cursor_index, current_page_index >>]_vars

\* C14: a refresh that raises does not end the main loop.
C14_RefreshErrorKeepsScanning ==
    mt.last_op = "show_menu raised" => ~app_should_exit

\* C15: a load whose storage read failed leaves the buffer, the cursor and
\* the current page index exactly as they were.
C15_FailedLoadLeavesDocument ==
    [][(mt'.ops # mt.ops /\ mt'.last_op = "load raised") =>
          UNCHANGED << text_buffer, cursor_index, current_page_index >>]_vars

\* ------------------------------------------------------------------------
\* file_menu of main_improved.py
\* ------------------------------------------------------------------------
\* names of the .txt files the storage directory can hold when the menu is
\* called, newest first (list_txt_files sorts by mtime, newest first)
MenuNames == << "f1", "f2", "f3" >>
\* the name action_new gives the note it creates ("note_<timestamp>.txt")
NewNote == "note"

fmRest == << docVars, ACTIVE_FILE, files, file_dirty, display_dirty,
             modeVars, reqVars, hwKeyVars, current_pressed, kb, dm, sv, im,
             fb, panelVars, timeVars, dispatched, burst_refreshes,
             workerVars, apiVars, importVars, view_page_index,
             view_subpage_index, edVars >>

\* list_txt_files for each content of the storage directory
Listings ==
    { SelectSeq(MenuNames, LAMBDA n : n \in S) :
        S \in SUBSET { MenuNames[i] : i \in 1..Len(MenuNames) } }

\* the listing without its entry at (0-based) index i
WithoutEntry(listing, i) ==
    SubSeq(listing, 1, i) \o SubSeq(listing, i + 2, Len(listing))

Clamp(lo, x, hi) == IF x > hi THEN (IF hi < lo THEN lo ELSE hi)
                    ELSE IF x < lo THEN lo ELSE x

\* file_menu(from_editor) up to its loop.  action_open calls it from the
\* editor, where ACTIVE_FILE names a file of the directory; main calls it at
\* startup with ACTIVE_FILE = "".  With nothing to list it returns at once:
\* the name of a note it creates at startup, None from the editor.
FmCall ==
    /\ fm.state = "closed"
    /\ \E from_editor \in BOOLEAN, listing \in Listings :
       \E active \in IF from_editor
                     THEN { listing[i] : i \in 1..Len(listing) }
                     ELSE { "" } :
          fm' = [state |-> IF listing = <<>> THEN "returned" ELSE "open",
                 files |-> listing, idx |-> 0, window |-> 0,
                 from_editor |-> from_editor, active |-> active,
                 choice |-> IF listing = <<>> /\ ~from_editor
                            THEN NewNote ELSE "",
                 key |-> ""]
    /\ UNCHANGED fmRest

\* 'PgUp' / 'Up': taken only when idx > 0
FmUp ==
    /\ fm.state = "open"
    /\ fm' = IF fm.idx > 0
             THEN [fm EXCEPT !.idx = fm.idx - 1,
                             !.window = IF fm.idx - 1 < fm.window
                                        THEN fm.idx - 1 ELSE fm.window,
                             !.key = "Up"]
             ELSE [fm EXCEPT !.key = "Up"]
    /\ UNCHANGED fmRest

\* 'PgDn' / 'Down': taken only when idx < len(files) - 1
FmDown ==
    /\ fm.state = "open"
    /\ fm' = IF fm.idx < Len(fm.files) - 1
             THEN [fm EXCEPT !.idx = fm.idx + 1,
                             !.window = IF fm.idx + 1 >= fm.window + MaxFilesShown
                                        THEN fm.idx + 1 - MaxFilesShown + 1
                                        ELSE fm.window,
                             !.key = "Down"]
             ELSE [fm EXCEPT !.key = "Down"]
    /\ UNCHANGED fmRest

\* 'Enter': render_file(files[idx]) and return files[idx]; files[idx] raises
\* IndexError when the list is empty
FmEnter ==
    /\ fm.state = "open"
    /\ fm' = IF fm.idx < Len(fm.files)
             THEN [fm EXCEPT !.state = "returned",
                             !.choice = fm.files[fm.idx + 1],
                             !.key = "Enter"]
             ELSE [fm EXCEPT !.state = "IndexError", !.key = "Enter"]
    /\ UNCHANGED fmRest

\* 'Esc' returns None when the menu was called from the editor, and so does
\* the menu after 30 s without a key
FmEsc ==
    /\ fm.state = "open"
    /\ fm' = IF fm.from_editor
             THEN [fm EXCEPT !.state = "returned", !.choice = "",
                             !.key = "Esc"]
             ELSE [fm EXCEPT !.key = "Esc"]
    /\ UNCHANGED fmRest

\* 'Backspace' / 'Del': to_remove is built from files[idx] (IndexError when
\* the list is empty), then action_delete shows its dialog and waits
FmDel ==
    /\ fm.state = "open"
    /\ fm' = IF fm.idx < Len(fm.files)
             THEN [fm EXCEPT !.state = "confirm", !.key = "Del"]
             ELSE [fm EXCEPT !.state = "IndexError", !.key = "Del"]
    /\ UNCHANGED fmRest

\* the key that answers action_delete's dialog.  Esc: cancelled.  Enter:
\* os.remove; when it raises nothing changes; when the file removed is
\* ACTIVE_FILE the Document is emptied and action_new creates a note, which
\* becomes ACTIVE_FILE; then the menu lists the directory again and clamps
\* idx and window.
FmConfirm ==
    /\ fm.state = "confirm"
    /\ \E key \in {"Enter", "Esc"}, raised \in BOOLEAN :
       LET target == fm.files[fm.idx + 1]
           rest == WithoutEntry(fm.files, fm.idx)
           listing == IF target = fm.active THEN << NewNote >> \o rest
                      ELSE rest
           idx == Clamp(0, fm.idx, Len(listing) - 1)
           removed == key = "Enter" /\ ~raised IN
       /\ fm' = IF removed
                THEN [fm EXCEPT !.state = "open", !.files = listing,
                                !.idx = idx,
                                !.window = Clamp(0, fm.window, idx),
                                !.active = IF target = fm.active
                                           THEN NewNote ELSE fm.active]
                ELSE [fm EXCEPT !.state = "open"]
       /\ IF removed /\ target = fm.active
          THEN /\ text_buffer' = <<>>
               /\ cursor_index' = 0
               /\ current_page_index' = 0
               /\ file_dirty' = FALSE
          ELSE UNCHANGED << docVars, file_dirty >>
    /\ UNCHANGED << ACTIVE_FILE, files, display_dirty, modeVars, reqVars,
                    hwKeyVars, current_pressed, kb, dm, sv, im, fb,
                    panelVars, timeVars, dispatched, burst_refreshes,
                    workerVars, apiVars, importVars, view_page_index,
                    view_subpage_index, edVars >>

InitFileMenu == EditorOpen /\ queue_class = "fallback"

NextFileMenu ==
    FmCall \/ FmUp \/ FmDown \/ FmEnter \/ FmEsc \/ FmDel \/ FmConfirm

SpecFileMenu == InitFileMenu /\ [][NextFileMenu]_vars

\* C16: with an empty list in the file menu, Up, Down, Enter and delete
\* change neither the menu (it stays open, selection as it was) nor the
\* Document, and raise nothing.
C16_EmptyMenuKeysAreNoOps ==
    [][(fm.state = "open" /\ fm.files = <<>>
        /\ fm'.key \in {"Up", "Down", "Enter", "Del"}) =>
          /\ fm' = [fm EXCEPT !.key = fm'.key]
          /\ UNCHANGED docVars]_vars

\* ------------------------------------------------------------------------
\* Screensaver and key order in the cooperative executor
\* ------------------------------------------------------------------------
\* C17: with the screensaver on and a key handled since it came on, the
\* physical refresh the display manager starts is a Full refresh and the
\* image it has sent is the rendering of the Document.
C17_WakeRefreshIsFullDocument ==
    [][(DmStartsRefresh /\ im.active /\ since_key < screen_saver_ms) =>
          /\ dm.kind = "full"
          /\ ram = RenderDoc(text_buffer, cursor_index)]_vars

\* the labels of the press events of a FIFO content, in FIFO order
RECURSIVE Presses(_)
Presses(events) ==
    IF events = <<>> THEN <<>>
    ELSE IF Head(events)[2] THEN << Head(events)[1] >> \o Presses(Tail(events))
    ELSE Presses(Tail(events))

\* C18: the characters of the presses a scan drains from the FIFO enter the
\* buffer at the cursor in the order of their press events.
C18_InsertedInDeliveryOrder ==
    [][(fifo # <<>> /\ fifo' = <<>> /\ mt'.last_op = "scan") =>
          text_buffer' = SubSeq(text_buffer, 1, cursor_index)
                         \o Presses(fifo)
                         \o SubSeq(text_buffer, cursor_index + 1,
                                   Len(text_buffer))]_vars

\* ------------------------------------------------------------------------
\* The pure functions of editor_base.py (TextLayout, PageManager)
\* ------------------------------------------------------------------------
SeqsUpTo(S, n) == UNION { [1..k -> S] : k \in 0..n }

\* texts of words, spaces and newlines, and the text of test_cursor_after_newline
LayoutTexts ==
    SeqsUpTo({"a", " ", NL}, MaxLayoutText)
        \cup { <<"H", "e", "l", "l", "o", NL>> }
\* widths that fit 1, 2, 2 (with 3 pixels to spare) and 3 characters on a
\* line, and the width of the panel
LayoutWidths ==
    { MARGIN_LEFT + CHAR_WIDTH, MARGIN_LEFT + 2 * CHAR_WIDTH,
      MARGIN_LEFT + 2 * CHAR_WIDTH + 3, MARGIN_LEFT + 3 * CHAR_WIDTH,
      EPD_WIDTH }
\* heights that fit 1 and 2 lines on a screen page, and the height of the panel
LayoutHeights ==
    { MARGIN_TOP + CHAR_HEIGHT, MARGIN_TOP + 2 * CHAR_HEIGHT, EPD_HEIGHT }

\* file contents with up to one whole marker, or two that overlap
Contents == SeqsUpTo({"a", "-", NL}, MaxContent) \cup SeqsUpTo({" ", NL}, 2)
\* page lists whose pages hold no '-'
PageLists ==
    UNION { [1..k -> SeqsUpTo({"a", " ", NL}, MaxPageText)] :
              k \in 1..MaxListPages }

FnArgs ==
    { [op |-> "text", text |-> t, max_width |-> w, max_height |-> h] :
        t \in LayoutTexts, w \in LayoutWidths, h \in LayoutHeights }
    \cup { [op |-> "content", arg |-> c] : c \in Contents }
    \cup { [op |-> "pages", arg |-> p] : p \in PageLists }

fnRest == << docVars, ACTIVE_FILE, files, file_dirty, display_dirty,
             modeVars, reqVars, hwKeyVars, current_pressed, kb, dm, sv, im,
             fb, panelVars, timeVars, dispatched, burst_refreshes,
             workerVars, apiVars, importVars, viewVars,
             current_subpage_index, ed, libVars >>

\* TextLayout.calculate_lines(text, max_width)
FnCalculateLines ==
    /\ fn.op = "text"
    /\ fn' = [fn EXCEPT !.op = "calculate_lines"]
                @@ [out |-> calculate_lines(fn.text, fn.max_width)]
    /\ UNCHANGED fnRest

\* TextLayout.get_screen_pages(text, max_width, max_height)
FnGetScreenPages ==
    /\ fn.op = "text"
    /\ fn' = [fn EXCEPT !.op = "get_screen_pages"]
                @@ [out |-> get_screen_pages(fn.text, fn.max_width,
                                             fn.max_height)]
    /\ UNCHANGED fnRest

\* TextLayout.get_cursor_screen_pos(text, cursor_index, max_width,
\* max_height), for a cursor inside the text, at its end or beyond it
FnGetCursorScreenPos ==
    /\ fn.op = "text"
    /\ \E cursor \in 0..(Len(fn.text) + 1) :
          fn' = [fn EXCEPT !.op = "get_cursor_screen_pos"]
                   @@ [cursor |-> cursor,
                       out |-> get_cursor_screen_pos(fn.text, cursor,
                                                     fn.max_width,
                                                     fn.max_height)]
    /\ UNCHANGED fnRest

\* PageManager.split_into_pages, of a content or of what merge_pages returned
FnSplit ==
    /\ fn.op \in {"content", "merge"}
    /\ fn' = IF fn.op = "content"
             THEN [op |-> "split", arg |-> fn.arg,
                   out |-> split_into_pages(fn.arg)]
             ELSE [op |-> "merge;split", arg |-> fn.arg,
                   out |-> split_into_pages(fn.out)]
    /\ UNCHANGED fnRest

\* PageManager.merge_pages, of a page list or of what split_into_pages
\* returned
FnMerge ==
    /\ fn.op \in {"pages", "split"}
    /\ fn' = IF fn.op = "pages"
             THEN [op |-> "merge", arg |-> fn.arg,
                   out |-> merge_pages(fn.arg)]
             ELSE [op |-> "split;merge", arg |-> fn.arg,
                   out |-> merge_pages(fn.out)]
    /\ UNCHANGED fnRest

InitFunctions ==
    /\ EditorIdle
    /\ queue_class = "fallback"
    /\ cl = ClNone
    /\ qu = QuNone
    /\ fn \in FnArgs

NextFunctions ==
    \/ FnCalculateLines
    \/ FnGetScreenPages
    \/ FnGetCursorScreenPos
    \/ FnSplit
    \/ FnMerge

SpecFunctions == InitFunctions /\ [][NextFunctions]_vars

\* ------------------------------------------------------------------------
\* The editor of main_improved.py: main() runs each editing function to its
\* end, on the one thread of the program
\* ------------------------------------------------------------------------
\* editing operations of one run
MaxEdits == 4
\* lines of a screen page of the panel
LinesOnPanel == (EPD_HEIGHT - MARGIN_TOP) \div CHAR_HEIGHT
\* a page whose lines fill the first screen page: the next character typed
\* is on the second
FullScreenPage == <<"a">> \o [i \in 1..LinesOnPanel |-> NL]
\* contents of the active file when main() starts: empty, a word, a file
\* whose second explicit page is empty, a file of two pages with text, a
\* full screen page
EditFiles ==
    { <<>>, <<"a", " ">>, <<"a">> \o Marker,
      <<"a">> \o Marker \o <<" ">>, FullScreenPage }

edIdle == << menu_selected_index, menu_files, app_should_exit, reqVars,
             hwKeyVars, current_pressed, kb, dm, sv, im, busy, busy_ms,
             busy_kind, timeVars, dispatched, burst_refreshes, workerVars,
             apiVars, importVars, fm, fn, libVars >>
edRest == << edIdle, app_mode, view_page_index, view_subpage_index >>

\* main: keys other than PgUp, PgDn and Home are skipped in paged view, and
\* so are the refresh and the save of the main loop
Editing == ed.ops < MaxEdits /\ app_mode = "editor"

\* the first character removed, wherever the cursor is
pop_first(text, cursor) == Tail(text)

\* "cursor_index -= 1; text_buffer.pop(cursor_index)": the text without the
\* character before the cursor
pop_before(text, cursor) ==
    SubSeq(text, 1, cursor - 1) \o SubSeq(text, cursor + 1, Len(text))

\* delete_word, "while i >= 0 and text_buffer[i] == ' ': i -= 1"
\* (i counts from 0, as in the code)
RECURSIVE SkipSpacesBack(_, _)
SkipSpacesBack(text, i) ==
    IF i >= 0 /\ text[i + 1] = " " THEN SkipSpacesBack(text, i - 1) ELSE i

\* a walk back that stops at a space only
RECURSIVE SkipToSpaceBack(_, _)
SkipToSpaceBack(text, i) ==
    IF i >= 0 /\ text[i + 1] # " " THEN SkipToSpaceBack(text, i - 1) ELSE i

\* delete_word, "while i >= 0 and text_buffer[i] not in ' \n': i -= 1"
RECURSIVE SkipWordBack(_, _)
SkipWordBack(text, i) ==
    IF i >= 0 /\ text[i + 1] \notin {" ", NL}
    THEN SkipWordBack(text, i - 1) ELSE i

\* delete_word, "for _ in range(chars_to_delete): if cursor_index > 0: ..."
RECURSIVE PopTimes(_, _, _)
PopTimes(text, cursor, n) ==
    IF n <= 0 THEN <<text, cursor>>
    ELSE IF cursor > 0
         THEN PopTimes(pop_before(text, cursor), cursor - 1, n - 1)
         ELSE PopTimes(text, cursor, n - 1)

\* save_current_page of main_improved.py: what it writes to a file of this
\* content (the file is split at the markers without a look at blankness)
SavedFile(content, page_idx, text) ==
    StrJoin(PagesWith(StrSplit(content, Marker), page_idx, text), Marker)

\* "len(screen_pages) - 1 if screen_pages else 0"
LastSubpage(text) ==
    LET screen_pages == get_screen_pages(text, EPD_WIDTH, EPD_HEIGHT)
    IN IF Len(screen_pages) > 0 THEN Len(screen_pages) - 1 ELSE 0

\* history: the operation, the one before it, the Document and the content
\* of the active file before each, and the Document (text_buffer,
\* cursor_index) as each reader of the operation found it:
\* save_current_page, save_cursor_position, refresh_display
EdDone(op, seen) ==
    ed' = [ops |-> ed.ops + 1, last_op |-> op, prev_op |-> ed.last_op,
           before |-> <<text_buffer, cursor_index>>, before2 |-> ed.before,
           file |-> files[ACTIVE_FILE], file2 |-> ed.file,
           seen |-> seen]

\* insert_char(ch); when the cursor has left the first screen page and the
\* subpage index is still 0, the page is saved and the panel cleared
EdInsertChar(ch) ==
    /\ Editing
    /\ LET text == SubSeq(text_buffer, 1, cursor_index) \o <<ch>>
                   \o SubSeq(text_buffer, cursor_index + 1, Len(text_buffer))
           cursor_page == get_cursor_screen_pos(text, cursor_index + 1,
                                                EPD_WIDTH, EPD_HEIGHT)[3]
           turn == cursor_page > 0 /\ current_subpage_index = 0
       IN /\ insert_char(ch)
          /\ files' = IF turn
                      THEN [files EXCEPT ![ACTIVE_FILE] =
                              SavedFile(@, current_page_index, text)]
                      ELSE files
          /\ current_subpage_index' =
                IF turn THEN cursor_page ELSE current_subpage_index
          /\ fb' = IF turn THEN BlankImage ELSE fb
          /\ ram' = IF turn THEN BlankImage ELSE ram
          /\ panel' = IF turn THEN BlankImage ELSE panel
          /\ EdDone("insert", { <<text, cursor_index + 1>> })
    /\ UNCHANGED << current_page_index, ACTIVE_FILE, edRest >>

\* main: 'Space' and the keys of one character
EdType ==
    /\ Editing
    /\ \E ch \in {"a", " "} : EdInsertChar(ch)

\* main: 'Enter' without Shift, cursor_newline
EdNewline ==
    /\ Editing
    /\ EdInsertChar(NL)

\* backspace: inside the text, or at the start of a page after the first
EdBackspace ==
    /\ Editing
    /\ IF cursor_index > 0 THEN
          LET text == pop_before(text_buffer, cursor_index) IN
          /\ text_buffer' = text
          /\ cursor_index' = cursor_index - 1
          /\ display_dirty' = TRUE
          /\ file_dirty' = TRUE
          /\ EdDone("backspace", { <<text, cursor_index - 1>> })
          /\ UNCHANGED << current_page_index, current_subpage_index, files >>
       ELSE IF current_page_index > 0 \/ current_subpage_index > 0 THEN
          LET content == SavedFile(files[ACTIVE_FILE], current_page_index,
                                   text_buffer)
              pages == split_into_pages(content)
              same == current_subpage_index > 0
              page == IF same THEN current_page_index
                      ELSE current_page_index - 1
              found == page < Len(pages)
              text == IF same \/ found THEN PageText(pages, page)
                      ELSE text_buffer
          IN
          /\ files' = [files EXCEPT ![ACTIVE_FILE] = content]
          /\ current_page_index' = page
          /\ current_subpage_index' =
                IF same THEN current_subpage_index - 1
                ELSE IF found THEN LastSubpage(PageText(pages, page))
                ELSE current_subpage_index
          /\ text_buffer' = text
          /\ cursor_index' = IF same \/ found THEN Len(text) ELSE cursor_index
          /\ display_dirty' = TRUE
          /\ file_dirty' = TRUE
          /\ EdDone("backspace",
                    { <<text_buffer, cursor_index>>,
                      <<text, IF same \/ found THEN Len(text)
                              ELSE cursor_index>> })
       ELSE
          /\ EdDone("backspace", {})
          /\ UNCHANGED << docVars, current_subpage_index, files,
                          display_dirty, file_dirty >>
    /\ UNCHANGED << ACTIVE_FILE, fb, ram, panel, edRest >>

\* main: Alt + 'Backspace', delete_word
EdDeleteWord ==
    /\ Editing
    /\ IF cursor_index = 0 THEN
          /\ EdDone("delete_word", {})
          /\ UNCHANGED << text_buffer, cursor_index, display_dirty,
                          file_dirty >>
       ELSE
          LET i == SkipWordBack(text_buffer,
                                SkipSpacesBack(text_buffer, cursor_index - 1))
              chars_to_delete == cursor_index - (i + 1)
              r == PopTimes(text_buffer, cursor_index, chars_to_delete)
          IN
          /\ text_buffer' = r[1]
          /\ cursor_index' = r[2]
          /\ display_dirty' = TRUE
          /\ file_dirty' = TRUE
          /\ EdDone("delete_word", { r })
    /\ UNCHANGED << current_page_index, current_subpage_index, ACTIVE_FILE,
                    files, fb, ram, panel, edRest >>

\* main: Shift + 'Enter', new_page_marker() then clear_screen().
\* new_page_marker saves the page, appends the marker to the file, clears
\* text_buffer and calls save_cursor_position; its "cursor_index = 0" binds
\* a local name (cursor_index is not among its globals), so the cursor it
\* persists is the one of the page left.  clear_screen then sets the global.
EdNewPage ==
    /\ Editing
    /\ current_page_index + 1 < MaxPages
    /\ files' = [files EXCEPT ![ACTIVE_FILE] =
                    SavedFile(@, current_page_index, text_buffer) \o Marker]
    /\ current_page_index' = current_page_index + 1
    /\ current_subpage_index' = 0
    /\ text_buffer' = <<>>
    /\ cursor_index' = 0
    /\ file_dirty' = TRUE
    /\ display_dirty' = TRUE
    /\ fb' = BlankImage
    /\ ram' = BlankImage
    /\ panel' = BlankImage
    /\ EdDone("new_page", { <<text_buffer, cursor_index>>,
                            << <<>>, cursor_index >>,
                            << <<>>, 0 >> })
    /\ UNCHANGED << ACTIVE_FILE, edRest >>

\* main loop, "if file_dirty and ...: save_current_page()"; Ctrl+S
EdSave ==
    /\ Editing
    /\ file_dirty
    /\ files' = [files EXCEPT ![ACTIVE_FILE] =
                    SavedFile(@, current_page_index, text_buffer)]
    /\ file_dirty' = FALSE
    /\ EdDone("save", { <<text_buffer, cursor_index>> })
    /\ UNCHANGED << docVars, current_subpage_index, ACTIVE_FILE,
                    display_dirty, fb, ram, panel, edRest >>

\* main loop, "if display_dirty and ...: refresh_display()"
EdRefresh ==
    /\ Editing
    /\ display_dirty
    /\ fb' = RenderDoc(text_buffer, cursor_index)
    /\ ram' = RenderDoc(text_buffer, cursor_index)
    /\ panel' = RenderDoc(text_buffer, cursor_index)
    /\ display_dirty' = FALSE
    /\ EdDone("refresh", { <<text_buffer, cursor_index>> })
    /\ UNCHANGED << docVars, current_subpage_index, ACTIVE_FILE, files,
                    file_dirty, edRest >>

\* Ctrl+O, action_open: the page is saved, then a file of the menu is
\* loaded at its last page (load_previous), or the menu is left with Esc
EdOpen ==
    /\ Editing
    /\ \E choice \in DOMAIN files \cup {""} :
       LET content == SavedFile(files[ACTIVE_FILE], current_page_index,
                                text_buffer)
           saved == [files EXCEPT ![ACTIVE_FILE] = content]
           pages == IF choice = "" THEN << <<>> >>
                    ELSE split_into_pages(saved[choice])
           last == pages[Len(pages)]
           text == IF choice = "" THEN text_buffer ELSE last
           cursor == IF choice = "" THEN cursor_index ELSE Len(last)
       IN
       /\ files' = saved
       /\ ACTIVE_FILE' = IF choice = "" THEN ACTIVE_FILE ELSE choice
       /\ current_page_index' = IF choice = "" THEN current_page_index
                                ELSE Len(pages) - 1
       /\ current_subpage_index' = IF choice = "" THEN current_subpage_index
                                   ELSE LastSubpage(last)
       /\ text_buffer' = text
       /\ cursor_index' = cursor
       /\ fb' = RenderDoc(text, cursor)
       /\ ram' = RenderDoc(text, cursor)
       /\ panel' = RenderDoc(text, cursor)
       /\ EdDone("load", IF choice = ""
                         THEN { <<text_buffer, cursor_index>> }
                         ELSE { <<text_buffer, cursor_index>>,
                                << <<>>, 0 >>, <<text, cursor>> })
    /\ file_dirty' = FALSE
    /\ display_dirty' = FALSE
    /\ UNCHANGED edRest

\* Ctrl+N, action_new: a new empty note becomes the active file; the page
\* being edited is not saved, and "file_dirty = False" binds a local name
EdNew ==
    /\ Editing
    /\ ACTIVE_FILE' = NewNote
    /\ files' = [f \in DOMAIN files \cup {NewNote} |->
                    IF f = NewNote THEN <<>> ELSE files[f]]
    /\ text_buffer' = <<>>
    /\ cursor_index' = 0
    /\ current_page_index' = 0
    /\ current_subpage_index' = 0
    /\ fb' = BlankImage
    /\ ram' = BlankImage
    /\ panel' = BlankImage
    /\ display_dirty' = TRUE
    /\ EdDone("new_file", { << <<>>, 0 >> })
    /\ UNCHANGED << file_dirty, edRest >>

\* main: PgUp or PgDn, in the editor or in paged view.  From the editor
\* the page is saved first when there is something to save, and the view
\* starts at the page and subpage being edited.  The view then moves and
\* display_page shows it; at the first or the last page nothing is drawn.
EdPage(lbl) ==
    /\ ed.ops < MaxEdits
    /\ app_mode \in {"editor", "paged_view"}
    /\ LET entering == app_mode = "editor"
           saving == entering /\ (file_dirty \/ text_buffer # <<>>)
           content == IF saving
                      THEN SavedFile(files[ACTIVE_FILE], current_page_index,
                                     text_buffer)
                      ELSE files[ACTIVE_FILE]
           pages == split_into_pages(content)
           vp == IF entering THEN current_page_index ELSE view_page_index
           vs == IF entering THEN current_subpage_index
                 ELSE view_subpage_index
           v == ViewAfter(lbl, pages, vp, vs)
           moved == v # <<vp, vs>>
           image == PageImage(v[1], v[2], Len(pages), PageText(pages, v[1]))
       IN /\ files' = [files EXCEPT ![ACTIVE_FILE] = content]
          /\ file_dirty' = IF saving THEN FALSE ELSE file_dirty
          /\ app_mode' = "paged_view"
          /\ view_page_index' = v[1]
          /\ view_subpage_index' = v[2]
          /\ fb' = IF moved THEN image ELSE fb
          /\ ram' = IF moved THEN image ELSE ram
          /\ panel' = IF moved THEN image ELSE panel
          /\ display_dirty' = IF moved THEN FALSE ELSE display_dirty
          /\ EdDone(lbl, IF saving THEN { <<text_buffer, cursor_index>> }
                         ELSE {})
    /\ UNCHANGED << docVars, current_subpage_index, ACTIVE_FILE, edIdle >>

\* main: Home in paged view.  When the page on view is not the page being
\* edited it is loaded whole (load_specific_page(view_page_index, 0));
\* then refresh_display()
EdHome ==
    /\ ed.ops < MaxEdits
    /\ app_mode = "paged_view"
    /\ LET other == view_page_index # current_page_index
           text == IF other
                   THEN PageText(split_into_pages(files[ACTIVE_FILE]),
                                 view_page_index)
                   ELSE text_buffer
           cursor == IF other THEN Len(text) ELSE cursor_index
       IN /\ app_mode' = "editor"
          /\ current_page_index' = view_page_index
          /\ current_subpage_index' = IF other THEN 0
                                      ELSE current_subpage_index
          /\ text_buffer' = text
          /\ cursor_index' = cursor
          /\ fb' = RenderDoc(text, cursor)
          /\ ram' = RenderDoc(text, cursor)
          /\ panel' = RenderDoc(text, cursor)
          /\ display_dirty' = FALSE
          /\ EdDone("Home", { <<text, cursor>> })
    /\ UNCHANGED << ACTIVE_FILE, files, file_dirty, view_page_index,
                    view_subpage_index, edIdle >>

\* main() after its startup: the file chosen in the menu is loaded at its
\* last page (load_cursor_position, load_previous) and shown
\* (refresh_display)
InitEdit ==
    /\ MachineIdle
    /\ fn = FnNone
    /\ cl = ClNone
    /\ qu = QuNone
    /\ queue_class = "fallback"
    /\ ACTIVE_FILE = FileNames[1]
    /\ \E content \in EditFiles : files = [f \in {FileNames[1]} |-> content]
    /\ LET pages == split_into_pages(files[ACTIVE_FILE])
           last == pages[Len(pages)]
       IN /\ text_buffer = last
          /\ cursor_index = Len(last)
          /\ current_page_index = Len(pages) - 1
          /\ current_subpage_index = LastSubpage(last)
          /\ fb = RenderDoc(last, Len(last))
          /\ ram = RenderDoc(last, Len(last))
          /\ panel = RenderDoc(last, Len(last))

NextEdit ==
    \/ EdType
    \/ EdNewline
    \/ EdBackspace
    \/ EdDeleteWord
    \/ EdNewPage
    \/ EdSave
    \/ EdRefresh
    \/ EdOpen
    \/ EdNew
    \/ \E lbl \in {"PgUp", "PgDn"} : EdPage(lbl)
    \/ EdHome

SpecEdit == InitEdit /\ [][NextEdit]_vars

\* ------------------------------------------------------------------------
\* The loop of TextLayout.calculate_lines, iteration by iteration
\* ------------------------------------------------------------------------
clRest == << docVars, ACTIVE_FILE, files, file_dirty, display_dirty,
             modeVars, reqVars, hwKeyVars, current_pressed, kb, dm, sv, im,
             fb, panelVars, timeVars, dispatched, burst_refreshes,
             workerVars, apiVars, importVars, viewVars,
             current_subpage_index, ed, fn, fsq, qu >>

\* a width too small for one character, and the widths of LayoutWidths
LoopWidths == { MARGIN_LEFT + CHAR_WIDTH - 1 } \cup LayoutWidths

\* lines the loop may append in the model; a layout at a width that fits
\* a character appends fewer
MaxLoopLines == 2 * MaxLayoutText + 2

\* calculate_lines(text, max_width) up to "while i < len(text)"
ClCall(text, max_width) ==
    [pc |-> "loop", text |-> text, max_width |-> max_width, i |-> 0,
     current_line |-> <<>>, current_x |-> MARGIN_LEFT, lines |-> <<>>,
     stalled |-> FALSE, stalls |-> 0]

\* lines.append(current_line[:]); current_line = []; current_x = MARGIN_LEFT
ClNewLine(c, line) ==
    [c EXCEPT !.lines = Append(@, line), !.current_line = <<>>,
              !.current_x = MARGIN_LEFT]

\* one iteration of the while loop of calculate_lines
CalcStep(c) ==
    LET text == c.text
        max_width == c.max_width
        i == c.i
        x == c.current_x
        line == c.current_line
    IN
    IF text[i + 1] = NL THEN
        [ClNewLine(c, line) EXCEPT !.i = i + 1]
    ELSE IF text[i + 1] = " " THEN
        IF x + CHAR_WIDTH <= max_width
        THEN [c EXCEPT !.current_line = Append(line, <<x, " ">>),
                       !.current_x = x + CHAR_WIDTH, !.i = i + 1]
        ELSE [c EXCEPT !.i = i + 1]
    ELSE
        LET wb == get_word_boundaries(text, i)
            word_end == wb[2]
            word_width == (wb[2] - wb[1]) * CHAR_WIDTH
        IN
        IF x + word_width <= max_width THEN
            [c EXCEPT !.current_line = line \o Placed(text, wb[1], word_end, x),
                      !.current_x = x + word_width, !.i = word_end]
        ELSE IF x = MARGIN_LEFT \/ word_width > max_width - MARGIN_LEFT THEN
            LET n == FitCount(i, word_end, x, max_width)
                line2 == line \o Placed(text, i, i + n, x)
            IN
            IF i + n < word_end
            THEN [ClNewLine(c, line2) EXCEPT !.i = i + n]
            ELSE [c EXCEPT !.current_line = line2,
                           !.current_x = x + n * CHAR_WIDTH, !.i = i + n]
        ELSE
            ClNewLine(c, line)

\* "while i < len(text)": the body runs once
ClIterate ==
    /\ cl.pc = "loop"
    /\ cl.i < Len(cl.text)
    /\ Len(cl.lines) < MaxLoopLines
    /\ LET c == CalcStep(cl)
           stalled == c.i = cl.i
       IN cl' = [c EXCEPT !.stalled = stalled,
                          !.stalls = @ + (IF stalled THEN 1 ELSE 0)]
    /\ UNCHANGED clRest

\* the loop is over: "if current_line: lines.append(current_line)" and
\* return lines
ClReturn ==
    /\ cl.pc = "loop"
    /\ cl.i >= Len(cl.text)
    /\ cl' = [cl EXCEPT !.pc = "done",
                        !.lines = IF Len(cl.current_line) > 0
                                  THEN Append(@, cl.current_line) ELSE @]
    /\ UNCHANGED clRest

InitLayoutLoop ==
    /\ EditorIdle
    /\ fn = FnNone
    /\ qu = QuNone
    /\ queue_class = "fallback"
    /\ \E text \in LayoutTexts, max_width \in LoopWidths :
          cl = ClCall(text, max_width)

NextLayoutLoop ==
    \/ ClIterate
    \/ ClReturn

SpecLayoutLoop == InitLayoutLoop /\ [][NextLayoutLoop]_vars

\* the loop runs on: nothing suspends calculate_lines
FairLayoutLoop == SpecLayoutLoop /\ WF_vars(NextLayoutLoop)

\* ------------------------------------------------------------------------
\* FileSaveQueue (file_async.py): request_save called by any task while
\* process_saves runs.  Contents are numbered in the order of the requests.
\* ------------------------------------------------------------------------
fsqRest == << docVars, ACTIVE_FILE, files, file_dirty, display_dirty,
              modeVars, reqVars, hwKeyVars, current_pressed, kb, dm, sv, im,
              fb, panelVars, timeVars, dispatched, burst_refreshes,
              workerVars, apiVars, importVars, viewVars,
              current_subpage_index, ed, fn, cl, qu >>

FsqHas(pending, path) == \E i \in 1..Len(pending) : pending[i][1] = path

\* pending_saves[path] = content; the dict keeps the order of insertion
FsqStore(pending, path, content) ==
    IF FsqHas(pending, path)
    THEN [i \in 1..Len(pending) |->
            IF pending[i][1] = path THEN <<path, content>> ELSE pending[i]]
    ELSE Append(pending, <<path, content>>)

\* request_save(path, content).  A new key stored while process_saves is
\* inside its loop over pending_saves.items() changes the dict under the
\* iteration.
FsqRequestSave ==
    /\ fsq.requests < MaxRequests
    /\ \E path \in FsqPaths :
          LET content == fsq.requests + 1 IN
          fsq' = [fsq EXCEPT
                    !.pending = FsqStore(@, path, content),
                    !.dirty = TRUE,
                    !.requests = content,
                    !.latest[path] = content,
                    !.resized = @ \/ (fsq.pc = "write"
                                       /\ ~FsqHas(fsq.pending, path))]
    /\ UNCHANGED fsqRest

\* process_saves: "if self.pending_saves: for path, content in ...items()"
\* up to the first await of save_file_async
FsqBatch(f) ==
    IF f.pending = <<>> THEN [f EXCEPT !.pc = "poll"]
    ELSE [f EXCEPT !.pc = "write", !.k = 1, !.item = f.pending[1],
                   !.resized = FALSE]

\* process_saves: pending_saves.clear(); dirty = False; sleep
FsqClear(f) ==
    [f EXCEPT !.pending = <<>>, !.dirty = FALSE, !.pc = "poll", !.k = 0,
              !.item = <<>>, !.resized = FALSE]

\* process_saves wakes with dirty set: it waits out the throttle period, or
\* the period is over and the batch starts
FsqCheck ==
    /\ fsq.pc = "poll"
    /\ fsq.dirty
    /\ \E late \in BOOLEAN :
          fsq' = IF late THEN FsqBatch(fsq) ELSE [fsq EXCEPT !.pc = "throttle"]
    /\ UNCHANGED fsqRest

\* the throttle sleep is over
FsqThrottled ==
    /\ fsq.pc = "throttle"
    /\ fsq' = FsqBatch(fsq)
    /\ UNCHANGED fsqRest

\* what the loop over the dict does next, once save_file_async returned:
\* the next item in order; RuntimeError (caught by process_saves, which
\* sleeps and starts over with pending_saves and dirty as they are) or the
\* end of the iteration when the dict changed size under it
IterOutcomes(f) == IF f.resized THEN {"next", "raise", "stop"} ELSE {"next"}

\* save_file_async(path, content) returns, True or False, and the loop
\* goes on; after the last item the batch is cleared
FsqWritten ==
    /\ fsq.pc = "write"
    /\ \E success \in BOOLEAN, outcome \in IterOutcomes(fsq) :
          LET wrote == [fsq EXCEPT
                          !.disk[fsq.item[1]] =
                              IF success THEN fsq.item[2] ELSE @,
                          !.failed = @ \/ ~success]
          IN fsq' = IF outcome = "raise"
                    THEN [wrote EXCEPT !.pc = "poll", !.k = 0,
                                       !.item = <<>>, !.resized = FALSE]
                    ELSE IF outcome = "next" /\ fsq.k < Len(fsq.pending)
                    THEN [wrote EXCEPT !.k = fsq.k + 1,
                                       !.item = fsq.pending[fsq.k + 1]]
                    ELSE FsqClear(wrote)
    /\ UNCHANGED fsqRest

InitSaveQueue == EditorOpen /\ queue_class = "fallback"

NextSaveQueue ==
    \/ FsqRequestSave
    \/ FsqCheck
    \/ FsqThrottled
    \/ FsqWritten

SpecSaveQueue == InitSaveQueue /\ [][NextSaveQueue]_vars

\* ------------------------------------------------------------------------
\* queue.Queue (queue.py) under producer and consumer threads.  Items are
\* numbered in the order of the put calls.
\* ------------------------------------------------------------------------
quRest == << docVars, ACTIVE_FILE, files, file_dirty, display_dirty,
             modeVars, reqVars, hwKeyVars, current_pressed, kb, dm, sv, im,
             fb, panelVars, timeVars, dispatched, burst_refreshes,
             workerVars, apiVars, importVars, viewVars,
             current_subpage_index, ed, fn, fsq, cl >>

QuProducers == {"p1", "p2"}
QuConsumers == {"c1", "c2"}
QuThreads == QuProducers \cup QuConsumers
QuMaxsizes == {0, 1, 2}

\* Queue.__init__(maxsize): _not_empty starts acquired, _not_full starts
\* acquired only when maxsize is 0
QuNew(maxsize) ==
    [maxsize |-> maxsize, queue |-> <<>>, lock |-> "",
     not_empty |-> "locked",
     not_full |-> IF maxsize = 0 THEN "locked" ELSE "free",
     pc |-> [t \in QuThreads |-> "idle"],
     item |-> [t \in QuThreads |-> 0],
     wait |-> [t \in QuThreads |-> "forever"],
     calls |-> 0, puts |-> 0, added |-> <<>>, returned |-> <<>>]

\* how a call waits: block=True without timeout, block=True with a
\* timeout, block=False
QuWaits == {"forever", "timed", "no"}

\* put or get returns or raises: the thread is outside the queue again
QuLeave(q, t) ==
    [q EXCEPT !.item[t] = 0, !.wait[t] = "forever", !.pc[t] = "idle"]

\* an acquire that takes a lock whoever holds it
LockIgnored(holder) == TRUE

\* _lock.acquire() returns for a thread when no thread holds the lock
LockFree(holder) == holder = ""

\* a thread calls put(item, block, timeout) and reaches "with self._lock"
QuPutCall(t) ==
    /\ qu.pc[t] = "idle"
    /\ qu.calls < MaxCalls
    /\ \E wait \in QuWaits :
          qu' = [qu EXCEPT !.pc[t] = "put_lock", !.item[t] = qu.puts + 1,
                           !.wait[t] = wait, !.puts = @ + 1,
                           !.calls = @ + 1]
    /\ UNCHANGED quRest

\* a thread calls get(block, timeout) and reaches "with self._lock"
QuGetCall(t) ==
    /\ qu.pc[t] = "idle"
    /\ qu.calls < MaxCalls
    /\ \E wait \in QuWaits :
          qu' = [qu EXCEPT !.pc[t] = "get_lock", !.wait[t] = wait,
                           !.calls = @ + 1]
    /\ UNCHANGED quRest

\* "with self._lock", and "self._lock.acquire()" after a wait: the thread
\* has the lock and tests the loop condition next
QuLock(t) ==
    /\ qu.pc[t] \in {"put_lock", "get_lock"}
    /\ LockFree(qu.lock)
    /\ qu' = [qu EXCEPT !.lock = t,
                        !.pc[t] = IF @ = "put_lock" THEN "put_check"
                                  ELSE "get_check"]
    /\ UNCHANGED quRest

\* put: "while self.maxsize > 0 and len(self._queue) >= self.maxsize":
\* raise Full when not blocking, else release _lock and go to wait
QuPutCheck(t) ==
    /\ qu.pc[t] = "put_check"
    /\ qu' = IF qu.maxsize > 0 /\ Len(qu.queue) >= qu.maxsize
             THEN IF qu.wait[t] = "no"
                  THEN QuLeave([qu EXCEPT !.lock = ""], t)
                  ELSE [qu EXCEPT !.lock = "", !.pc[t] = "put_wait"]
             ELSE [qu EXCEPT !.pc[t] = "put_append"]
    /\ UNCHANGED quRest

\* put: self._not_full.acquire() returns, or
\* _try_acquire_with_timeout(self._not_full, 0.01) returns True
QuPutWait(t) ==
    /\ qu.pc[t] = "put_wait"
    /\ qu.not_full = "free"
    /\ qu' = [qu EXCEPT !.not_full = "locked", !.pc[t] = "put_lock"]
    /\ UNCHANGED quRest

\* put: self._queue.append(item); self._not_empty.release(), which raises
\* on a lock that is not held and is passed over; _lock is released
QuPutAppend(t) ==
    /\ qu.pc[t] = "put_append"
    /\ qu' = QuLeave([qu EXCEPT !.queue = Append(@, qu.item[t]),
                                !.added = Append(@, qu.item[t]),
                                !.not_empty = "free",
                                !.lock = IF @ = t THEN "" ELSE @], t)
    /\ UNCHANGED quRest

\* get: "while len(self._queue) == 0": raise Empty when not blocking, else
\* release _lock and go to wait
QuGetCheck(t) ==
    /\ qu.pc[t] = "get_check"
    /\ qu' = IF Len(qu.queue) = 0
             THEN IF qu.wait[t] = "no"
                  THEN QuLeave([qu EXCEPT !.lock = ""], t)
                  ELSE [qu EXCEPT !.lock = "", !.pc[t] = "get_wait"]
             ELSE [qu EXCEPT !.pc[t] = "get_pop"]
    /\ UNCHANGED quRest

\* get: self._not_empty.acquire() returns, or
\* _try_acquire_with_timeout(self._not_empty, 0.01) returns True
QuGetWait(t) ==
    /\ qu.pc[t] = "get_wait"
    /\ qu.not_empty = "free"
    /\ qu' = [qu EXCEPT !.not_empty = "locked", !.pc[t] = "get_lock"]
    /\ UNCHANGED quRest

\* get: item = self._queue.pop(0); self._not_full.release() when
\* maxsize > 0; _lock is released and the item returned.  pop(0) on an
\* empty list raises IndexError and returns nothing.
QuGetPop(t) ==
    /\ qu.pc[t] = "get_pop"
    /\ qu' = QuLeave([qu EXCEPT
                         !.queue = IF @ = <<>> THEN @ ELSE Tail(@),
                         !.returned = IF qu.queue = <<>> THEN @
                                      ELSE Append(@, Head(qu.queue)),
                         !.not_full = IF qu.maxsize > 0 /\ qu.queue # <<>>
                                      THEN "free" ELSE @,
                         !.lock = IF @ = t THEN "" ELSE @], t)
    /\ UNCHANGED quRest

\* put, get with a timeout: the time is over; "self._lock.acquire()" and
\* "raise Full" or "raise Empty", which leaves the with block
QuTimeout(t) ==
    /\ qu.pc[t] \in {"put_wait", "get_wait"}
    /\ qu.wait[t] = "timed"
    /\ LockFree(qu.lock)
    /\ qu' = QuLeave(qu, t)
    /\ UNCHANGED quRest

InitQueue ==
    /\ EditorIdle
    /\ fn = FnNone
    /\ cl = ClNone
    /\ queue_class = "module"
    /\ \E maxsize \in QuMaxsizes : qu = QuNew(maxsize)

\* a step of a thread that is inside put or get
QuRun(t) ==
    \/ QuLock(t)
    \/ QuPutCheck(t)
    \/ QuPutWait(t)
    \/ QuPutAppend(t)
    \/ QuGetCheck(t)
    \/ QuGetWait(t)
    \/ QuGetPop(t)
    \/ QuTimeout(t)

NextQueue ==
    \/ \E t \in QuProducers : QuPutCall(t)
    \/ \E t \in QuConsumers : QuGetCall(t)
    \/ \E t \in QuThreads : QuRun(t)

SpecQueue == InitQueue /\ [][NextQueue]_vars

\* every thread runs on its own; the calls are the callers' choice
FairQueue == SpecQueue /\ \A t \in QuThreads : WF_vars(QuRun(t))

\* ------------------------------------------------------------------------
\* Properties of the pure functions
\* ------------------------------------------------------------------------
\* C23 as stated: merge_pages(split_into_pages(content)) = content for
\* every content.
C23_SplitMergeIsIdentity ==
    fn.op = "split;merge" => fn.out = fn.arg

\* C23: merge_pages(split_into_pages(content)) = content for every content
\* that is empty or holds a character other than space and newline.
C23_SplitMergeOfNonBlank ==
    (fn.op = "split;merge" /\ (fn.arg = <<>> \/ ~IsBlank(fn.arg))) =>
        fn.out = fn.arg

\* a content with a marker in it has been split and merged again
C23_Witness_MarkerRoundTrip ==
    /\ fn.op = "split;merge"
    /\ FindFrom(fn.arg, Marker, 1) > 0
    /\ Len(fn.arg) > Len(Marker)

\* C24 as stated: split_into_pages(merge_pages(pages)) = pages for every
\* non-empty list of pages without '-'.
C24_MergeSplitIsIdentity ==
    fn.op = "merge;split" => fn.out = fn.arg

\* C24: split_into_pages(merge_pages(pages)) = pages for every non-empty
\* list of pages without '-', unless the list is a single page that is not
\* empty and holds only spaces and newlines; the number of pages is
\* preserved for every list.
C24_MergeSplitOfNonBlank ==
    fn.op = "merge;split" =>
        /\ Len(fn.out) = Len(fn.arg)
        /\ ~(Len(fn.arg) = 1 /\ fn.arg[1] # <<>> /\ IsBlank(fn.arg[1])) =>
              fn.out = fn.arg

\* a list of several pages, one of them blank, has been merged and split
C24_Witness_PagesRoundTrip ==
    /\ fn.op = "merge;split"
    /\ Len(fn.arg) >= 2
    /\ \E i \in 1..Len(fn.arg) : fn.arg[i] # <<>> /\ IsBlank(fn.arg[i])
    /\ \E i \in 1..Len(fn.arg) : ~IsBlank(fn.arg[i])

\* the characters of the glyphs of screen pages, in page and list order
RECURSIVE GlyphChars(_)
GlyphChars(pages) ==
    IF pages = <<>> THEN <<>>
    ELSE [j \in 1..Len(pages[1]) |-> pages[1][j][3]] \o GlyphChars(Tail(pages))

NonNewlines(text) == SelectSeq(text, LAMBDA c : c # NL)

\* C25: the characters of the glyphs of get_screen_pages(text, w, h), in
\* order, are the characters of text other than newlines, in order.
C25_PagesKeepEveryCharacter ==
    fn.op = "get_screen_pages" => GlyphChars(fn.out) = NonNewlines(fn.text)

AllNewlines(text) == Len(text) >= 1 /\ \A i \in 1..Len(text) : text[i] = NL

\* C27: a text of N >= 1 newlines gives N + 1 lines, and a text that ends
\* with a newline gives a last line that is empty.
C27_NewlinesMakeLines ==
    fn.op = "calculate_lines" =>
        /\ AllNewlines(fn.text) => Len(fn.out) = Len(fn.text) + 1
        /\ (fn.text # <<>> /\ fn.text[Len(fn.text)] = NL) =>
              (fn.out # <<>> /\ fn.out[Len(fn.out)] = <<>>)

\* C28: with a newline just before the cursor, get_cursor_screen_pos gives
\* x = MARGIN_LEFT; on the panel, for a text that does not wrap, y is one
\* line below the line the newline ended; for "Hello\n" and cursor 6 it
\* gives (MARGIN_LEFT, MARGIN_TOP + CHAR_HEIGHT, 0).
C28_CursorAfterNewline ==
    (/\ fn.op = "get_cursor_screen_pos"
     /\ fn.cursor >= 1
     /\ fn.cursor <= Len(fn.text)
     /\ fn.text[fn.cursor] = NL) =>
        /\ fn.out[1] = MARGIN_LEFT
        /\ (fn.max_width = EPD_WIDTH /\ fn.max_height = EPD_HEIGHT) =>
              fn.out[2] = MARGIN_TOP + CHAR_HEIGHT *
                  Len(SelectSeq(SubSeq(fn.text, 1, fn.cursor),
                                LAMBDA c : c = NL))
        /\ (fn.text = <<"H", "e", "l", "l", "o", NL>>
            /\ fn.max_width = EPD_WIDTH /\ fn.max_height = EPD_HEIGHT) =>
              fn.out = <<MARGIN_LEFT, MARGIN_TOP + CHAR_HEIGHT, 0>>

UnbrokenWord(text) ==
    Len(text) >= 1 /\ \A i \in 1..Len(text) : text[i] \notin {" ", NL}

FitPerLine(max_width) == (max_width - MARGIN_LEFT) \div CHAR_WIDTH

\* C29: an unbroken word of n characters, with m >= 1 characters fitting
\* on a line, is laid out on ceil(n / m) lines, each but the last of m
\* glyphs; a word of exactly m characters is on one line.
C29_LongWordLines ==
    (fn.op = "calculate_lines" /\ UnbrokenWord(fn.text)
     /\ FitPerLine(fn.max_width) >= 1) =>
        LET n == Len(fn.text)
            m == FitPerLine(fn.max_width) IN
        /\ Len(fn.out) = (n + m - 1) \div m
        /\ \A k \in 1..(Len(fn.out) - 1) : Len(fn.out[k]) = m
        /\ Len(fn.out[Len(fn.out)]) = n - m * (Len(fn.out) - 1)

\* a word of three characters has been laid out two to a line
C29_Witness_WordOverTwoLines ==
    /\ fn.op = "calculate_lines"
    /\ fn.text = <<"a", "a", "a">>
    /\ FitPerLine(fn.max_width) = 2
    /\ Len(fn.out) = 2

\* ------------------------------------------------------------------------
\* Properties of the editing operations
\* ------------------------------------------------------------------------
\* C21: wherever an operation reads the Document (to save it, to persist
\* the cursor, to render it), 0 <= cursor_index <= len(text_buffer).
C21_CursorInsideBuffer ==
    \A d \in ed.seen : 0 <= d[2] /\ d[2] <= Len(d[1])

\* C22: insert_char(ch) immediately followed by backspace() leaves
\* text_buffer and cursor_index as they were before the insert.
C22_InsertBackspaceRestores ==
    (ed.prev_op = "insert" /\ ed.last_op = "backspace") =>
        <<text_buffer, cursor_index>> = ed.before2

\* a character typed after other text has been erased again
C22_Witness_TypedAndErased ==
    /\ ed.prev_op = "insert"
    /\ ed.last_op = "backspace"
    /\ Len(ed.before2[1]) >= 1
    /\ ed.before[1][Len(ed.before[1])] # ed.before[1][1]

\* the boundary b of delete_word for a cursor c: left of c a maximal run of
\* spaces down to s, left of s a maximal run of characters that are
\* neither space nor newline down to b
WordStart(text, c) ==
    CHOOSE b \in 0..c :
        \E s \in b..c :
            /\ \A k \in (s + 1)..c : text[k] = " "
            /\ s = 0 \/ text[s] # " "
            /\ \A k \in (b + 1)..s : text[k] \notin {" ", NL}
            /\ b = 0 \/ text[b] \in {" ", NL}

\* C30: delete_word with cursor c > 0 removes exactly buffer[b..c); the
\* cursor is b afterwards, the text before b and after c is unchanged, and
\* no newline has been removed.
C30_DeleteWordRemovesWord ==
    (ed.last_op = "delete_word" /\ ed.before[2] > 0) =>
        LET old == ed.before[1]
            c == ed.before[2]
            b == WordStart(old, c)
        IN /\ text_buffer = SubSeq(old, 1, b) \o SubSeq(old, c + 1, Len(old))
           /\ cursor_index = b
           /\ \A k \in (b + 1)..c : old[k] # NL

\* a word and the space after it have been deleted back to a newline
C30_Witness_WordAfterNewline ==
    /\ ed.last_op = "delete_word"
    /\ ed.before = << <<NL, "a", " ">>, 3 >>
    /\ text_buffer = <<NL>>
    /\ cursor_index = 1

\* the pages of old, but page k, are pages of now with the same text
OtherPagesKept(old, now, k) ==
    \A j \in 0..(Len(old) - 1) :
        j # k => (j < Len(now) /\ now[j + 1] = old[j + 1])

\* C31: after a page break on explicit page k, page k of the file holds the
\* text the Document had, current_page_index is k + 1, the Document is
\* empty with cursor 0, and every other page the file had before the
\* command has its text, also after the save that follows.
C31_PageBreakKeepsPages ==
    LET k == current_page_index - 1
        now == split_into_pages(files[ACTIVE_FILE])
    IN
    /\ ed.last_op = "new_page" =>
          /\ PageText(now, k) = ed.before[1]
          /\ Len(now) > k
          /\ text_buffer = <<>>
          /\ cursor_index = 0
          /\ OtherPagesKept(split_into_pages(ed.file), now, k)
    /\ (ed.prev_op = "new_page" /\ ed.last_op = "save") =>
          OtherPagesKept(split_into_pages(ed.file2), now, k)

\* ------------------------------------------------------------------------
\* Properties of persistence
\* ------------------------------------------------------------------------
\* no call of save_current_page_async is between its first statement and its
\* return
NoSaveInProgress == \A t \in SaveCallers : sv[t].pc = "idle"

\* C32: in the cooperative executor, whenever no save is in progress and
\* file_dirty is False, the current page of the active file equals the
\* Document buffer.
C32_CleanMeansPersisted ==
    (NoSaveInProgress /\ ~file_dirty) => Persisted

\* C33: in the threaded executor, when PgUp or PgDn opens the paged view
\* from an editor with unsaved text, the pages it reads from storage hold
\* the Document's text as the current page.
C33_ViewReadsSavedDocument ==
    [][(app_mode = "editor" /\ app_mode' = "paged_view" /\ file_dirty) =>
          PageText(load_pages(ACTIVE_FILE), current_page_index)
              = text_buffer]_vars

\* C34: in the threaded executor, when the program has ended (main has left
\* its loop and the worker has stopped), no save request is left in the
\* file queue: the requests queued before the exit and the final save of a
\* dirty Document have been written.
C34_ExitWritesEverything ==
    (app_should_exit /\ wk.pc = "stopped") => file_queue = <<>>

\* ------------------------------------------------------------------------
\* Properties of FileSaveQueue
\* ------------------------------------------------------------------------
\* C35: every content given to request_save is written to its path or
\* superseded by a later one that is written: once process_saves has
\* nothing left to write (dirty is False, no batch in progress) and no
\* write has failed, the storage holds the latest requested content of
\* every path.
C35_RequestedContentIsWritten ==
    (fsq.pc = "poll" /\ ~fsq.dirty /\ ~fsq.failed) =>
        \A path \in FsqPaths : fsq.disk[path] = fsq.latest[path]

\* ------------------------------------------------------------------------
\* Properties of failed writes
\* ------------------------------------------------------------------------
\* a request on file_queue that holds the Document's text as its page
PendingSave ==
    \E i \in 1..Len(file_queue) :
        /\ file_queue[i].path = ACTIVE_FILE
        /\ PageText(split_into_pages(file_queue[i].content),
                    current_page_index) = text_buffer

\* C36: file_dirty is never False while the latest Document text has
\* neither been written to the file nor is pending in the save queue.
C36_DirtyUntilWritten == ~file_dirty => (Persisted \/ PendingSave)

\* ------------------------------------------------------------------------
\* Properties of the cursor's screen page
\* ------------------------------------------------------------------------
\* C37: for a geometry that fits one character per line and one line per
\* page, the page index get_cursor_screen_pos returns for the cursor at
\* the end of the text is smaller than the number of pages
\* get_screen_pages returns for the text.
C37_CursorPageExists ==
    (/\ fn.op = "get_cursor_screen_pos"
     /\ fn.cursor = Len(fn.text)
     /\ fn.max_width >= MARGIN_LEFT + CHAR_WIDTH
     /\ fn.max_height >= MARGIN_TOP + CHAR_HEIGHT) =>
        fn.out[3] < Len(get_screen_pages(fn.text, fn.max_width,
                                         fn.max_height))

\* ------------------------------------------------------------------------
\* Properties of the loop of calculate_lines
\* ------------------------------------------------------------------------
\* max_width >= MARGIN_LEFT + CHAR_WIDTH
FitsCharacter == cl.max_width >= MARGIN_LEFT + CHAR_WIDTH

\* C38: calculate_lines terminates for every text when max_width fits a
\* character: an iteration that leaves the scan index where it was starts
\* a new line and follows an iteration that advanced the index, and the
\* loop reaches its return.
C38_CalculateLinesTerminates ==
    /\ [][(/\ cl.pc = "loop"
           /\ FitsCharacter
           /\ cl'.pc = "loop"
           /\ cl' # cl
           /\ cl'.i = cl.i) =>
              (/\ ~cl.stalled
               /\ cl'.current_line = <<>>
               /\ cl'.current_x = MARGIN_LEFT)]_vars
    /\ (cl.pc = "loop" /\ FitsCharacter) ~> (cl.pc = "done")

\* a layout has returned in which an iteration started a new line without
\* advancing the index
C38_Witness_NewLineThenAdvance ==
    cl.pc = "done" /\ FitsCharacter /\ cl.stalls > 0

\* ------------------------------------------------------------------------
\* Properties of queue.Queue
\* ------------------------------------------------------------------------
\* C39: under every interleaving of put and get calls the items come out
\* in the order in which they were appended, none is lost or returned
\* twice (the items returned followed by the items stored are the items
\* added, and no pop meets an empty list), and with maxsize > 0 the
\* number of stored items never exceeds maxsize.
C39_FifoNoLossBounded ==
    /\ qu.returned \o qu.queue = qu.added
    /\ \A t \in QuThreads : qu.pc[t] = "get_pop" => qu.queue # <<>>
    /\ qu.maxsize > 0 => Len(qu.queue) <= qu.maxsize

\* a producer waits at a full queue after an item has gone through it
C39_Witness_ProducerWaitsAtFullQueue ==
    /\ qu.maxsize = 1
    /\ Len(qu.queue) = 1
    /\ Len(qu.returned) >= 1
    /\ \E t \in QuProducers : qu.pc[t] = "put_wait"

\* C40: a thread waiting inside get() does not stay there while the queue
\* holds an item, and a thread waiting inside put() does not stay there
\* while the queue has room.
C40_NoLostWakeup ==
    \A t \in QuThreads :
        /\ (qu.pc[t] = "get_wait" /\ qu.queue # <<>>)
              ~> (qu.pc[t] # "get_wait" \/ qu.queue = <<>>)
        /\ (qu.pc[t] = "put_wait" /\ Len(qu.queue) < qu.maxsize)
              ~> (qu.pc[t] # "put_wait" \/ Len(qu.queue) >= qu.maxsize)
====
